---- MODULE Spec2Model ----
(***************************************************************************)
(* Kung Fu Chess server core (paladin8/kfchess-cc): the simulation engine  *)
(* (kfchess/game), the replay engine and playback cache, and the game loop *)
(* of the WebSocket handler, and the lobby manager (kfchess/lobby).        *)
(*                                                                         *)
(* Conventions                                                             *)
(*  - Optional values (Python None) are sequences: <<>> is None, <<x>> is  *)
(*    the value x.                                                         *)
(*  - Stored piece coordinates are whole squares (the engine only ever     *)
(*    writes float(int) into Piece.row / Piece.col).                       *)
(*  - Path points are kept in half squares (the knight midpoint is a half  *)
(*    integer), interpolated positions in units of 1/(2*T) square, T the   *)
(*    ticks per square, so every position the code computes is an integer. *)
(***************************************************************************)
EXTENDS Integers, Sequences, FiniteSets, TLC

VARIABLES
    state,      \* the live GameState (engine.py / state.py)
    last,       \* the last engine call: its name, the events it returned, what tick() saw
    session,    \* the ReplaySession playback cache over the finished game's Replay
    hs,         \* the WebSocket handler: game registry, connections, loop tasks
    manager,    \* the LobbyManager: lobbies, player keys, player lock (lobby/manager.py)
    db          \* the game_replays table and the database sessions of the saves in progress

vars == <<state, last, session, hs, manager, db>>

None == <<>>
Some(x) == <<x>>

\* ------------------------------------------------------------------------
\* Bounds of the model (inputs and horizons, not program constants)
\* ------------------------------------------------------------------------
\* tick() is not called on the live game beyond this tick
MaxTick == 104
\* at most this many ReplayMove entries are recorded per game
MaxMoves == 4
\* move intents arrive only in bursts: at ticks t with t % IntentPeriod < IntentBurst
IntentPeriod == 43
IntentBurst == 2

\* ------------------------------------------------------------------------
\* state.py: speed configuration
\* ------------------------------------------------------------------------
TICK_RATE_HZ == 30

\* SPEED_CONFIGS, seconds written in tenths of a second
SPEED_CONFIGS(speed) ==
    IF speed = "standard"
    THEN [seconds_per_square |-> 10, cooldown_seconds |-> 100,
          draw_no_move_seconds |-> 1200, draw_no_capture_seconds |-> 1800,
          min_draw_seconds |-> 3600]
    ELSE [seconds_per_square |-> 2, cooldown_seconds |-> 20,
          draw_no_move_seconds |-> 300, draw_no_capture_seconds |-> 450,
          min_draw_seconds |-> 900]

\* int(seconds * TICK_RATE_HZ)
ticks_per_square(speed) == (SPEED_CONFIGS(speed).seconds_per_square * TICK_RATE_HZ) \div 10
cooldown_ticks(speed) == (SPEED_CONFIGS(speed).cooldown_seconds * TICK_RATE_HZ) \div 10
draw_no_move_ticks(speed) == (SPEED_CONFIGS(speed).draw_no_move_seconds * TICK_RATE_HZ) \div 10
draw_no_capture_ticks(speed) == (SPEED_CONFIGS(speed).draw_no_capture_seconds * TICK_RATE_HZ) \div 10
min_draw_ticks(speed) == (SPEED_CONFIGS(speed).min_draw_seconds * TICK_RATE_HZ) \div 10

\* ------------------------------------------------------------------------
\* pieces.py / board.py
\* ------------------------------------------------------------------------
\* Piece.create: id "TYPE:PLAYER:ROW:COL"
Piece(id, type, player, row, col) ==
    [id |-> id, type |-> type, player |-> player, row |-> row, col |-> col,
     captured |-> FALSE, moved |-> FALSE]

Abs(x) == IF x < 0 THEN -x ELSE x

\* Board.get_piece_by_id: the first piece with that id, as an index into pieces (0: None)
FirstIndex(S) == IF S = {} THEN 0 ELSE CHOOSE i \in S : \A j \in S : i <= j

get_piece_by_id(board, piece_id) ==
    FirstIndex({i \in DOMAIN board.pieces : board.pieces[i].id = piece_id})

\* Board.get_piece_at: the first uncaptured piece on that square, as an index (0: None)
get_piece_at(board, row, col) ==
    LET At(p) == ~p.captured /\ p.row = row /\ p.col = col
    IN FirstIndex({i \in DOMAIN board.pieces : At(board.pieces[i])})

\* Board.get_king: the first uncaptured king of the player, as an index (0: None)
get_king(board, player) ==
    LET IsKing(p) == p.type = "K" /\ p.player = player /\ ~p.captured
    IN FirstIndex({i \in DOMAIN board.pieces : IsKing(board.pieces[i])})

\* Board.is_valid_square
is_valid_square(board, row, col) ==
    IF row < 0 \/ row >= board.height \/ col < 0 \/ col >= board.width THEN FALSE
    ELSE IF board.board_type = "four_player"
            /\ (\/ (row < 2 /\ col < 2)
                \/ (row < 2 /\ col >= board.width - 2)
                \/ (row >= board.height - 2 /\ col < 2)
                \/ (row >= board.height - 2 /\ col >= board.width - 2))
         THEN FALSE
    ELSE TRUE

STANDARD_BACK_ROW == <<"R", "N", "B", "Q", "K", "B", "N", "R">>

PieceId(type, player, row, col) ==
    LET D == <<"0", "1", "2", "3", "4", "5", "6", "7", "8", "9", "10", "11">>
    IN type \o ":" \o D[player + 1] \o ":" \o D[row + 1] \o ":" \o D[col + 1]

CreatePiece(type, player, row, col) == Piece(PieceId(type, player, row, col), type, player, row, col)

\* Board.create_standard
create_standard ==
    [pieces |->
        [c \in 1..8 |-> CreatePiece(STANDARD_BACK_ROW[c], 2, 0, c - 1)]
        \o [c \in 1..8 |-> CreatePiece("P", 2, 1, c - 1)]
        \o [c \in 1..8 |-> CreatePiece("P", 1, 6, c - 1)]
        \o [c \in 1..8 |-> CreatePiece(STANDARD_BACK_ROW[c], 1, 7, c - 1)],
     board_type |-> "standard", width |-> 8, height |-> 8]

\* Board.create_empty followed by add_piece calls
BoardOf(pieces) == [pieces |-> pieces, board_type |-> "standard", width |-> 8, height |-> 8]

\* Board.create_empty(BoardType.FOUR_PLAYER) and add_piece of each piece
FourPlayerBoardOf(pieces) ==
    [pieces |-> pieces, board_type |-> "four_player", width |-> 12, height |-> 12]

\* ------------------------------------------------------------------------
\* moves.py: Move, Cooldown, path computation
\* ------------------------------------------------------------------------
\* a path point (row, col), in half squares
Pt(row, col) == <<2 * row, 2 * col>>

\* Move dataclass; extra_move is an optional Move
Move(piece_id, path, start_tick, extra_move) ==
    [piece_id |-> piece_id, path |-> path, start_tick |-> start_tick, extra_move |-> extra_move]

\* Move.end_position, as whole squares (int(end_row), int(end_col))
end_square(move) ==
    <<move.path[Len(move.path)][1] \div 2, move.path[Len(move.path)][2] \div 2>>

\* Move.num_squares
num_squares(move) == Len(move.path) - 1

\* Cooldown dataclass
Cooldown(piece_id, start_tick, duration) ==
    [piece_id |-> piece_id, start_tick |-> start_tick, duration |-> duration]

\* Cooldown.is_active, off by one: the cooldown is still active at start_tick + duration
is_active_inclusive(cd, current_tick) == current_tick <= cd.start_tick + cd.duration

\* Cooldown.is_active
is_active(cd, current_tick) == current_tick < cd.start_tick + cd.duration

\* is_piece_moving that looks at the first active move only
is_piece_moving_first_only(piece_id, active_moves) ==
    active_moves # <<>> /\ active_moves[1].piece_id = piece_id

\* moves._is_piece_moving / collision.is_piece_moving
is_piece_moving(piece_id, active_moves) ==
    \E k \in 1..Len(active_moves) : active_moves[k].piece_id = piece_id

\* collision.is_piece_on_cooldown
is_piece_on_cooldown(piece_id, cooldowns, current_tick) ==
    \E k \in 1..Len(cooldowns) :
        cooldowns[k].piece_id = piece_id /\ is_active(cooldowns[k], current_tick)

Sign(x) == IF x = 0 THEN 0 ELSE IF x > 0 THEN 1 ELSE -1
Max(a, b) == IF a >= b THEN a ELSE b
Min(a, b) == IF a <= b THEN a ELSE b

\* _build_linear_path: every square from the start to the end of a straight or diagonal line
_build_linear_path(from_row, from_col, to_row, to_col) ==
    LET row_dir == Sign(to_row - from_row)
        col_dir == Sign(to_col - from_col)
        n == Max(Abs(to_row - from_row), Abs(to_col - from_col))
    IN [k \in 1..(n + 1) |-> Pt(from_row + (k - 1) * row_dir, from_col + (k - 1) * col_dir)]

\* _compute_pawn_path_standard
_compute_pawn_path_standard(piece, board, from_row, from_col, to_row, to_col, active_moves) ==
    LET direction == IF piece.player = 1 THEN -1 ELSE 1
        start_row == IF piece.player = 1 THEN 6 ELSE 1
        row_diff == to_row - from_row
        col_diff == to_col - from_col
        mid_row == from_row + direction
        target == get_piece_at(board, to_row, to_col)
    IN  IF col_diff = 0 /\ row_diff = direction
        THEN IF target # 0 THEN None
             ELSE <<Pt(from_row, from_col), Pt(to_row, to_col)>>
        ELSE IF col_diff = 0 /\ row_diff = 2 * direction /\ from_row = start_row
        THEN IF get_piece_at(board, mid_row, from_col) # 0 THEN None
             ELSE IF target # 0 THEN None
             ELSE <<Pt(from_row, from_col), Pt(mid_row, from_col), Pt(to_row, to_col)>>
        ELSE IF Abs(col_diff) = 1 /\ row_diff = direction
        THEN IF target = 0 THEN None
             ELSE IF board.pieces[target].player = piece.player THEN None
             ELSE IF is_piece_moving(board.pieces[target].id, active_moves) THEN None
             ELSE <<Pt(from_row, from_col), Pt(to_row, to_col)>>
        ELSE None

\* FOUR_PLAYER_ORIENTATIONS.get(player): forward direction, home line of the pawns,
\* promotion line and axis of movement; None for a player number other than 1..4
FOUR_PLAYER_ORIENTATIONS(player) ==
    CASE player = 1 -> Some([forward |-> <<0, -1>>, pawn_home_axis |-> 10, promotion_axis |-> 2, axis |-> "col"])
      [] player = 2 -> Some([forward |-> <<-1, 0>>, pawn_home_axis |-> 10, promotion_axis |-> 2, axis |-> "row"])
      [] player = 3 -> Some([forward |-> <<0, 1>>, pawn_home_axis |-> 1, promotion_axis |-> 9, axis |-> "col"])
      [] player = 4 -> Some([forward |-> <<1, 0>>, pawn_home_axis |-> 1, promotion_axis |-> 9, axis |-> "row"])
      [] OTHER -> None

\* _compute_pawn_path_4player
_compute_pawn_path_4player(piece, board, from_row, from_col, to_row, to_col, active_moves) ==
    LET orient == FOUR_PLAYER_ORIENTATIONS(piece.player)[1]
        row_diff == to_row - from_row
        col_diff == to_col - from_col
        fwd_row == orient.forward[1]
        fwd_col == orient.forward[2]
        is_at_start == IF orient.axis = "col" THEN from_col = orient.pawn_home_axis
                       ELSE from_row = orient.pawn_home_axis
        forward_diff == IF orient.axis = "col" THEN col_diff ELSE row_diff
        lateral_diff == IF orient.axis = "col" THEN row_diff ELSE col_diff
        forward_dir == IF orient.axis = "col" THEN fwd_col ELSE fwd_row
        mid_row == from_row + fwd_row
        mid_col == from_col + fwd_col
        target == get_piece_at(board, to_row, to_col)
    IN  IF FOUR_PLAYER_ORIENTATIONS(piece.player) = None THEN None
        ELSE IF lateral_diff = 0 /\ forward_diff = forward_dir
        THEN IF target # 0 THEN None
             ELSE <<Pt(from_row, from_col), Pt(to_row, to_col)>>
        ELSE IF lateral_diff = 0 /\ forward_diff = 2 * forward_dir /\ is_at_start
        THEN IF get_piece_at(board, mid_row, mid_col) # 0 THEN None
             ELSE IF target # 0 THEN None
             ELSE <<Pt(from_row, from_col), Pt(mid_row, mid_col), Pt(to_row, to_col)>>
        ELSE IF forward_diff = forward_dir /\ Abs(lateral_diff) = 1
        THEN IF target = 0 THEN None
             ELSE IF board.pieces[target].player = piece.player THEN None
             ELSE IF is_piece_moving(board.pieces[target].id, active_moves) THEN None
             ELSE <<Pt(from_row, from_col), Pt(to_row, to_col)>>
        ELSE None

\* _compute_pawn_path
_compute_pawn_path(piece, board, from_row, from_col, to_row, to_col, active_moves) ==
    IF board.board_type = "standard"
    THEN _compute_pawn_path_standard(piece, board, from_row, from_col, to_row, to_col, active_moves)
    ELSE _compute_pawn_path_4player(piece, board, from_row, from_col, to_row, to_col, active_moves)

\* _compute_knight_path: start, midpoint (a half integer), end
_compute_knight_path(from_row, from_col, to_row, to_col) ==
    LET row_diff == Abs(to_row - from_row)
        col_diff == Abs(to_col - from_col)
    IN  IF (row_diff = 2 /\ col_diff = 1) \/ (row_diff = 1 /\ col_diff = 2)
        THEN <<Pt(from_row, from_col), <<from_row + to_row, from_col + to_col>>, Pt(to_row, to_col)>>
        ELSE None

\* _compute_bishop_path
_compute_bishop_path(from_row, from_col, to_row, to_col) ==
    LET row_diff == to_row - from_row
        col_diff == to_col - from_col
    IN  IF Abs(row_diff) # Abs(col_diff) \/ row_diff = 0 THEN None
        ELSE _build_linear_path(from_row, from_col, to_row, to_col)

\* _compute_rook_path
_compute_rook_path(from_row, from_col, to_row, to_col) ==
    LET row_diff == to_row - from_row
        col_diff == to_col - from_col
    IN  IF row_diff # 0 /\ col_diff # 0 THEN None
        ELSE IF row_diff = 0 /\ col_diff = 0 THEN None
        ELSE _build_linear_path(from_row, from_col, to_row, to_col)

\* _compute_queen_path
_compute_queen_path(from_row, from_col, to_row, to_col) ==
    LET row_diff == to_row - from_row
        col_diff == to_col - from_col
    IN  IF Abs(row_diff) = Abs(col_diff) /\ row_diff # 0
        THEN _build_linear_path(from_row, from_col, to_row, to_col)
        ELSE IF (row_diff = 0) # (col_diff = 0)
        THEN _build_linear_path(from_row, from_col, to_row, to_col)
        ELSE None

\* _compute_king_path
_compute_king_path(from_row, from_col, to_row, to_col) ==
    LET row_diff == Abs(to_row - from_row)
        col_diff == Abs(to_col - from_col)
    IN  IF row_diff <= 1 /\ col_diff <= 1 /\ (row_diff > 0 \/ col_diff > 0)
        THEN <<Pt(from_row, from_col), Pt(to_row, to_col)>>
        ELSE None

\* _compute_piece_path
_compute_piece_path(piece, board, from_row, from_col, to_row, to_col, active_moves) ==
    CASE piece.type = "P" ->
            _compute_pawn_path(piece, board, from_row, from_col, to_row, to_col, active_moves)
      [] piece.type = "N" -> _compute_knight_path(from_row, from_col, to_row, to_col)
      [] piece.type = "B" -> _compute_bishop_path(from_row, from_col, to_row, to_col)
      [] piece.type = "R" -> _compute_rook_path(from_row, from_col, to_row, to_col)
      [] piece.type = "Q" -> _compute_queen_path(from_row, from_col, to_row, to_col)
      [] piece.type = "K" -> _compute_king_path(from_row, from_col, to_row, to_col)
      [] OTHER -> None

\* the destinations (whole squares) of the active moves of the player's own pieces
own_moving_destinations(board, player, active_moves) ==
    {end_square(active_moves[k]) : k \in
        {j \in 1..Len(active_moves) :
            LET i == get_piece_by_id(board, active_moves[j].piece_id)
            IN i # 0 /\ board.pieces[i].player = player}}

\* _is_path_clear in which a piece at rest of any player blocks
_is_path_clear_of_any_piece(path, board, player, active_moves) ==
    \A k \in 2..Len(path) :
        LET int_row == path[k][1] \div 2
            int_col == path[k][2] \div 2
            piece_at == get_piece_at(board, int_row, int_col)
        IN  /\ ~(/\ piece_at # 0
                 /\ ~is_piece_moving(board.pieces[piece_at].id, active_moves))
            /\ <<int_row, int_col>> \notin own_moving_destinations(board, player, active_moves)

\* _is_path_clear: own pieces at rest and destinations of own active moves block
_is_path_clear(path, board, player, active_moves) ==
    \A k \in 2..Len(path) :
        LET int_row == path[k][1] \div 2
            int_col == path[k][2] \div 2
            piece_at == get_piece_at(board, int_row, int_col)
        IN  /\ ~(/\ piece_at # 0
                 /\ board.pieces[piece_at].player = player
                 /\ ~is_piece_moving(board.pieces[piece_at].id, active_moves))
            /\ <<int_row, int_col>> \notin own_moving_destinations(board, player, active_moves)

\* _is_knight_destination_valid: only the landing square is checked
_is_knight_destination_valid(path, board, player, active_moves) ==
    LET int_row == path[Len(path)][1] \div 2
        int_col == path[Len(path)][2] \div 2
        piece_at == get_piece_at(board, int_row, int_col)
    IN  /\ ~(/\ piece_at # 0
             /\ board.pieces[piece_at].player = player
             /\ ~is_piece_moving(board.pieces[piece_at].id, active_moves))
        /\ <<int_row, int_col>> \notin own_moving_destinations(board, player, active_moves)

\* compute_move_path: the path, or None
compute_move_path(piece, board, to_row, to_col, active_moves) ==
    LET from_row == piece.row
        from_col == piece.col
        path == _compute_piece_path(piece, board, from_row, from_col, to_row, to_col, active_moves)
    IN  IF from_row = to_row /\ from_col = to_col THEN None
        ELSE IF ~is_valid_square(board, to_row, to_col) THEN None
        ELSE IF path = None THEN None
        ELSE IF piece.type # "N"
        THEN IF ~_is_path_clear(path, board, piece.player, active_moves) THEN None ELSE path
        ELSE IF ~_is_knight_destination_valid(path, board, piece.player, active_moves) THEN None
        ELSE path

\* should_promote_pawn
should_promote_pawn(piece, board, end_row, end_col) ==
    LET orient == FOUR_PLAYER_ORIENTATIONS(piece.player)
    IN  IF piece.type # "P" THEN FALSE
        ELSE IF board.board_type = "standard"
        THEN end_row = (IF piece.player = 1 THEN 0 ELSE 7)
        ELSE IF orient = None THEN FALSE
        ELSE IF orient[1].axis = "col" THEN end_col = orient[1].promotion_axis
        ELSE end_row = orient[1].promotion_axis

\* _check_castling_standard: the king's move carrying the rook's as extra_move, or None
_check_castling_standard(piece, board, to_row, to_col, active_moves, cooldowns, current_tick) ==
    LET from_row == piece.row
        from_col == piece.col
        col_diff == to_col - from_col
        rook_col == IF col_diff = 2 THEN 7 ELSE 0
        new_rook_col == IF col_diff = 2 THEN 5 ELSE 3
        r == get_piece_at(board, from_row, rook_col)
        rook == board.pieces[r]
        start_col == Min(from_col, rook_col) + 1
        end_col == Max(from_col, rook_col)
        king_step == IF col_diff > 0 THEN 1 ELSE -1
        king_path == <<Pt(from_row, from_col), Pt(from_row, from_col + king_step),
                       Pt(from_row, from_col + 2 * king_step)>>
        rook_path == <<Pt(from_row, rook_col), Pt(from_row, new_rook_col)>>
        rook_move == Move(rook.id, rook_path, 0, None)
    IN  IF to_row # from_row THEN None
        ELSE IF Abs(col_diff) # 2 THEN None
        ELSE IF r = 0 THEN None
        ELSE IF rook.type # "R" \/ rook.player # piece.player THEN None
        ELSE IF rook.moved THEN None
        ELSE IF is_piece_moving(rook.id, active_moves) THEN None
        ELSE IF \E k \in 1..Len(cooldowns) :
                    cooldowns[k].piece_id = rook.id /\ is_active(cooldowns[k], current_tick)
        THEN None
        ELSE IF \E col \in start_col..(end_col - 1) : get_piece_at(board, from_row, col) # 0
        THEN None
        ELSE IF \E k \in 1..Len(active_moves) :
                    /\ end_square(active_moves[k])[1] = from_row
                    /\ start_col <= end_square(active_moves[k])[2]
                    /\ end_square(active_moves[k])[2] < end_col
        THEN None
        ELSE Some(Move(piece.id, king_path, 0, Some(rook_move)))

\* check_castling (the kings of a four_player board are not asked to move: for them
\* the castling of the standard board stands in for _check_castling_4player)
check_castling(piece, board, to_row, to_col, active_moves, cooldowns, current_tick) ==
    IF piece.type # "K" THEN None
    ELSE IF piece.moved THEN None
    ELSE _check_castling_standard(piece, board, to_row, to_col, active_moves, cooldowns, current_tick)

\* ------------------------------------------------------------------------
\* collision.py
\* ------------------------------------------------------------------------
\* CAPTURE_DISTANCE = 0.4 squares, in hundredths of a square
CAPTURE_DISTANCE == 40

\* Capture dataclass; position is the sum of the two positions (twice the midpoint)
Capture(capturing_piece_id, captured_piece_id, position) ==
    [capturing_piece_id |-> capturing_piece_id, captured_piece_id |-> captured_piece_id,
     position |-> position]

\* "for move in active_moves: if move.piece_id == piece.id: ... break": index of the first, 0 if none
first_move_of(active_moves, piece_id) ==
    FirstIndex({i \in DOMAIN active_moves : active_moves[i].piece_id = piece_id})

\* move_by_piece = {m.piece_id: m for m in active_moves}: index of the last, 0 if none
RECURSIVE move_by_piece(_, _, _)
move_by_piece(active_moves, piece_id, k) ==
    IF k = 0 THEN 0
    ELSE IF active_moves[k].piece_id = piece_id THEN k
    ELSE move_by_piece(active_moves, piece_id, k - 1)

\* the resting position of a piece, in units of 1/(2*T) square
rest_position(piece, T) == <<piece.row * 2 * T, piece.col * 2 * T>>

\* get_interpolated_position
get_interpolated_position(piece, active_moves, current_tick, T) ==
    LET k == first_move_of(active_moves, piece.id)
        active_move == active_moves[k]
        ticks_elapsed == current_tick - active_move.start_tick
        path == active_move.path
        total_squares == Len(path) - 1
        total_ticks == total_squares * T
        segment_index == ticks_elapsed \div T
        rem == ticks_elapsed % T
        a == path[segment_index + 1]
        b == path[segment_index + 2]
    IN  IF k = 0 THEN rest_position(piece, T)
        ELSE IF ticks_elapsed < 0 THEN rest_position(piece, T)
        ELSE IF total_squares = 0 THEN <<path[1][1] * T, path[1][2] * T>>
        ELSE IF ticks_elapsed >= total_ticks
        THEN <<path[Len(path)][1] * T, path[Len(path)][2] * T>>
        ELSE IF segment_index >= total_squares
        THEN <<path[Len(path)][1] * T, path[Len(path)][2] * T>>
        ELSE <<a[1] * T + (b[1] - a[1]) * rem, a[2] * T + (b[2] - a[2]) * rem>>

\* "ticks_elapsed < total_ticks * 0.85"
knight_airborne(ticks_elapsed, total_ticks) == 100 * ticks_elapsed < 85 * total_ticks

\* get_knight_position: Some(position), or None while the knight is airborne
get_knight_position(piece, active_moves, current_tick, T) ==
    LET k == first_move_of(active_moves, piece.id)
        active_move == active_moves[k]
        ticks_elapsed == current_tick - active_move.start_tick
        total_ticks == 2 * T
        path == active_move.path
        s == path[1]
        e == path[Len(path)]
    IN  IF k = 0 THEN Some(rest_position(piece, T))
        ELSE IF ticks_elapsed < 0 THEN Some(rest_position(piece, T))
        ELSE IF knight_airborne(ticks_elapsed, total_ticks) THEN None
        ELSE IF ticks_elapsed >= total_ticks THEN Some(<<e[1] * T, e[2] * T>>)
        ELSE Some(<<s[1] * T + ((e[1] - s[1]) \div 2) * ticks_elapsed,
                    s[2] * T + ((e[2] - s[2]) \div 2) * ticks_elapsed>>)

\* can_knight_capture: "progress >= 0.85"
can_knight_capture(move, current_tick, T) ==
    100 * (current_tick - move.start_tick) >= 85 * (2 * T)

\* _is_pawn_moving_straight; move is an optional Move
_is_pawn_moving_straight(piece, move) ==
    IF piece.type # "P" THEN FALSE
    ELSE IF move = None THEN FALSE
    ELSE IF Len(move[1].path) < 2 THEN FALSE
    ELSE move[1].path[1][2] = move[1].path[Len(move[1].path)][2]

\* _can_piece_capture
_can_piece_capture(piece, move) == ~_is_pawn_moving_straight(piece, move)

\* _determine_capture_winner in which the first piece of the pair wins when both moves
\* started at the same tick
_determine_capture_winner_first_wins(piece_a, piece_b, move_a, move_b) ==
    LET a_can_capture == _can_piece_capture(piece_a, move_a)
        b_can_capture == _can_piece_capture(piece_b, move_b)
        a_moving == move_a # None
        b_moving == move_b # None
    IN  IF ~a_can_capture /\ ~b_can_capture
        THEN IF move_a # None /\ move_b # None
             THEN IF move_a[1].start_tick < move_b[1].start_tick THEN Some("a")
                  ELSE IF move_b[1].start_tick < move_a[1].start_tick THEN Some("b")
                  ELSE None
             ELSE None
        ELSE IF a_can_capture /\ ~b_can_capture THEN Some("a")
        ELSE IF b_can_capture /\ ~a_can_capture THEN Some("b")
        ELSE IF a_moving /\ ~b_moving THEN Some("a")
        ELSE IF b_moving /\ ~a_moving THEN Some("b")
        ELSE IF ~a_moving /\ ~b_moving THEN None
        ELSE IF move_a[1].start_tick < move_b[1].start_tick THEN Some("a")
        ELSE IF move_b[1].start_tick < move_a[1].start_tick THEN Some("b")
        ELSE Some("a")

\* _determine_capture_winner: <<"a">> (a wins), <<"b">> (b wins) or None (mutual destruction)
_determine_capture_winner(piece_a, piece_b, move_a, move_b) ==
    LET a_can_capture == _can_piece_capture(piece_a, move_a)
        b_can_capture == _can_piece_capture(piece_b, move_b)
        a_moving == move_a # None
        b_moving == move_b # None
    IN  IF ~a_can_capture /\ ~b_can_capture
        THEN IF move_a # None /\ move_b # None
             THEN IF move_a[1].start_tick < move_b[1].start_tick THEN Some("a")
                  ELSE IF move_b[1].start_tick < move_a[1].start_tick THEN Some("b")
                  ELSE None
             ELSE None
        ELSE IF a_can_capture /\ ~b_can_capture THEN Some("a")
        ELSE IF b_can_capture /\ ~a_can_capture THEN Some("b")
        ELSE IF a_moving /\ ~b_moving THEN Some("a")
        ELSE IF b_moving /\ ~a_moving THEN Some("b")
        ELSE IF ~a_moving /\ ~b_moving THEN None
        ELSE IF move_a[1].start_tick < move_b[1].start_tick THEN Some("a")
        ELSE IF move_b[1].start_tick < move_a[1].start_tick THEN Some("b")
        ELSE None

\* piece_positions: per index of pieces, Some(position), or None (captured, or airborne knight)
piece_positions(pieces, active_moves, current_tick, T) ==
    [i \in 1..Len(pieces) |->
        IF pieces[i].captured THEN None
        ELSE IF pieces[i].type = "N"
        THEN get_knight_position(pieces[i], active_moves, current_tick, T)
        ELSE Some(get_interpolated_position(pieces[i], active_moves, current_tick, T))]

\* "dist >= CAPTURE_DISTANCE" fails: the two positions are closer than the capture distance
within_capture_distance(pos_a, pos_b, T) ==
    10000 * ((pos_a[1] - pos_b[1]) * (pos_a[1] - pos_b[1])
             + (pos_a[2] - pos_b[2]) * (pos_a[2] - pos_b[2]))
        < CAPTURE_DISTANCE * CAPTURE_DISTANCE * (2 * T) * (2 * T)

\* the optional Move of move_by_piece.get(piece.id)
move_of(active_moves, piece_id) ==
    LET k == move_by_piece(active_moves, piece_id, Len(active_moves))
    IN IF k = 0 THEN None ELSE Some(active_moves[k])

\* the captures of one pair (piece_a before piece_b in the list of uncaptured pieces)
pair_captures(pieces, active_moves, current_tick, T, pos, i, j) ==
    LET piece_a == pieces[i]
        piece_b == pieces[j]
        move_a == move_of(active_moves, piece_a.id)
        move_b == move_of(active_moves, piece_b.id)
        winner == _determine_capture_winner(piece_a, piece_b, move_a, move_b)
        collision_pos == <<pos[i][1][1] + pos[j][1][1], pos[i][1][2] + pos[j][1][2]>>
    IN  IF piece_a.captured \/ piece_b.captured THEN <<>>
        ELSE IF pos[i] = None THEN <<>>
        ELSE IF piece_a.player = piece_b.player THEN <<>>
        ELSE IF pos[j] = None THEN <<>>
        ELSE IF ~within_capture_distance(pos[i][1], pos[j][1], T) THEN <<>>
        ELSE IF piece_a.type = "N" /\ move_a # None
                /\ ~can_knight_capture(move_a[1], current_tick, T) THEN <<>>
        ELSE IF piece_b.type = "N" /\ move_b # None
                /\ ~can_knight_capture(move_b[1], current_tick, T) THEN <<>>
        ELSE IF winner = Some("a") THEN <<Capture(piece_a.id, piece_b.id, collision_pos)>>
        ELSE IF winner = Some("b") THEN <<Capture(piece_b.id, piece_a.id, collision_pos)>>
        ELSE <<Capture("", piece_a.id, collision_pos), Capture("", piece_b.id, collision_pos)>>

\* the pairs i < j, in the order of the nested loops, as a sequence
RECURSIVE pairs_in_order(_)
pairs_in_order(S) ==
    IF S = {} THEN <<>>
    ELSE LET m == CHOOSE p \in S : \A q \in S : p[1] < q[1] \/ (p[1] = q[1] /\ p[2] <= q[2])
         IN <<m>> \o pairs_in_order(S \ {m})

RECURSIVE flatten(_, _)
flatten(f, seq) == IF seq = <<>> THEN <<>> ELSE f[Head(seq)] \o flatten(f, Tail(seq))

\* detect_collisions, given the piece_positions it has computed: the pairs of visible
\* pieces of different players within the capture distance, in the order of the nested loops
collisions_of(pieces, active_moves, current_tick, T, pos) ==
    LET visible == {i \in 1..Len(pieces) : pos[i] # None}
        near == UNION {{<<i, j>> : j \in {k \in visible :
                                    /\ i < k
                                    /\ pieces[i].player # pieces[k].player
                                    /\ within_capture_distance(pos[i][1], pos[k][1], T)}}
                       : i \in visible}
        caps == [p \in near |-> pair_captures(pieces, active_moves, current_tick, T, pos, p[1], p[2])]
    IN flatten(caps, pairs_in_order(near))

\* detect_collisions that takes a knight for an ordinary piece: it is seen and captures
\* all along its path
detect_collisions_no_jump(pieces, active_moves, current_tick, T) ==
    LET sliders == [i \in 1..Len(pieces) |->
                        IF pieces[i].type = "N" THEN [pieces[i] EXCEPT !.type = "Q"]
                        ELSE pieces[i]]
    IN  CHOOSE captures \in
            {collisions_of(sliders, active_moves, current_tick, T, pos) :
                pos \in {piece_positions(sliders, active_moves, current_tick, T)}} : TRUE

\* detect_collisions
detect_collisions(pieces, active_moves, current_tick, T) ==
    CHOOSE captures \in
        {collisions_of(pieces, active_moves, current_tick, T, pos) :
            pos \in {piece_positions(pieces, active_moves, current_tick, T)}} : TRUE

\* ------------------------------------------------------------------------
\* engine.py: GameEngine
\* ------------------------------------------------------------------------
\* GameEvent dataclass
GameEvent(type, tick, data) == [type |-> type, tick |-> tick, data |-> data]

\* ReplayMove dataclass (state.py)
ReplayMove(tick, piece_id, to_row, to_col, player) ==
    [tick |-> tick, piece_id |-> piece_id, to_row |-> to_row, to_col |-> to_col, player |-> player]

\* GameState dataclass (state.py) with its field defaults; the wall-clock fields
\* started_at and finished_at are left out
GameState(game_id, board, speed, players) ==
    [game_id |-> game_id, board |-> board, speed |-> speed, players |-> players,
     active_moves |-> <<>>, cooldowns |-> <<>>, current_tick |-> 0, status |-> "waiting",
     winner |-> None, win_reason |-> None, last_move_tick |-> 0, last_capture_tick |-> 0,
     replay_moves |-> <<>>, ready_players |-> {}]

\* GameEngine.create_game (board type standard; it raises unless there are exactly 2 players)
create_game(speed, players, board_type, game_id) ==
    GameState(game_id, create_standard, speed, players)

\* GameEngine.create_game_from_board
create_game_from_board(speed, players, board, game_id) ==
    GameState(game_id, board, speed, players)

\* player_id.startswith("bot:") or player_id.startswith("c:")
is_bot(player_id) ==
    \/ (Len(player_id) >= 4 /\ SubSeq(player_id, 1, 4) = "bot:")
    \/ (Len(player_id) >= 2 /\ SubSeq(player_id, 1, 2) = "c:")

\* GameEngine.set_player_ready, which starts a game of one player
set_player_ready_alone(st, player) ==
    LET ready == st.ready_players \cup {player}
                    \cup {p \in DOMAIN st.players : is_bot(st.players[p])}
        all_ready == \A p \in DOMAIN st.players : p \in ready
    IN  IF st.status # "waiting" THEN [state |-> st, events |-> <<>>]
        ELSE IF player \notin DOMAIN st.players THEN [state |-> st, events |-> <<>>]
        ELSE IF all_ready
        THEN [state |-> [st EXCEPT !.ready_players = ready, !.status = "playing",
                                   !.current_tick = 0, !.last_move_tick = 0,
                                   !.last_capture_tick = 0],
              events |-> <<GameEvent("game_started", 0, [players |-> st.players])>>]
        ELSE [state |-> [st EXCEPT !.ready_players = ready], events |-> <<>>]

\* GameEngine.set_player_ready
set_player_ready(st, player) ==
    LET ready == st.ready_players \cup {player}
                    \cup {p \in DOMAIN st.players : is_bot(st.players[p])}
        all_ready == \A p \in DOMAIN st.players : p \in ready
    IN  IF st.status # "waiting" THEN [state |-> st, events |-> <<>>]
        ELSE IF player \notin DOMAIN st.players THEN [state |-> st, events |-> <<>>]
        ELSE IF all_ready /\ Cardinality(DOMAIN st.players) >= 2
        THEN [state |-> [st EXCEPT !.ready_players = ready, !.status = "playing",
                                   !.current_tick = 0, !.last_move_tick = 0,
                                   !.last_capture_tick = 0],
              events |-> <<GameEvent("game_started", 0, [players |-> st.players])>>]
        ELSE [state |-> [st EXCEPT !.ready_players = ready], events |-> <<>>]

\* GameEngine.validate_move without the check of the cooldown
validate_move_during_cooldown(st, player, piece_id, to_row, to_col) ==
    LET i == get_piece_by_id(st.board, piece_id)
        piece == st.board.pieces[i]
        castling == check_castling(piece, st.board, to_row, to_col, st.active_moves,
                                   st.cooldowns, st.current_tick)
        king_move == castling[1]
        rook_move == king_move.extra_move[1]
        path == compute_move_path(piece, st.board, to_row, to_col, st.active_moves)
    IN  IF st.status # "playing" THEN None
        ELSE IF i = 0 THEN None
        ELSE IF piece.player # player THEN None
        ELSE IF piece.captured THEN None
        ELSE IF is_piece_moving(piece_id, st.active_moves) THEN None
        ELSE IF castling # None
        THEN Some([king_move EXCEPT !.start_tick = st.current_tick + 1,
                       !.extra_move = Some([rook_move EXCEPT !.start_tick = st.current_tick + 1])])
        ELSE IF path = None THEN None
        ELSE Some(Move(piece_id, path, st.current_tick + 1, None))

\* GameEngine.validate_move: Some(move), or None
validate_move(st, player, piece_id, to_row, to_col) ==
    LET i == get_piece_by_id(st.board, piece_id)
        piece == st.board.pieces[i]
        castling == check_castling(piece, st.board, to_row, to_col, st.active_moves,
                                   st.cooldowns, st.current_tick)
        king_move == castling[1]
        rook_move == king_move.extra_move[1]
        path == compute_move_path(piece, st.board, to_row, to_col, st.active_moves)
    IN  IF st.status # "playing" THEN None
        ELSE IF i = 0 THEN None
        ELSE IF piece.player # player THEN None
        ELSE IF piece.captured THEN None
        ELSE IF is_piece_moving(piece_id, st.active_moves) THEN None
        ELSE IF is_piece_on_cooldown(piece_id, st.cooldowns, st.current_tick) THEN None
        ELSE IF castling # None
        THEN Some([king_move EXCEPT !.start_tick = st.current_tick + 1,
                       !.extra_move = Some([rook_move EXCEPT !.start_tick = st.current_tick + 1])])
        ELSE IF path = None THEN None
        ELSE Some(Move(piece_id, path, st.current_tick + 1, None))

\* the ReplayMove of a move, recorded at the tick the move starts instead of the tick of
\* the request
replay_record_at_start_tick(st, move) ==
    LET i == get_piece_by_id(st.board, move.piece_id)
    IN  IF i = 0 THEN <<>>
        ELSE <<ReplayMove(move.start_tick, move.piece_id, end_square(move)[1],
                          end_square(move)[2], st.board.pieces[i].player)>>

\* the ReplayMove apply_move records for a move, if its piece exists
replay_record(st, move) ==
    LET i == get_piece_by_id(st.board, move.piece_id)
    IN  IF i = 0 THEN <<>>
        ELSE <<ReplayMove(st.current_tick, move.piece_id, end_square(move)[1],
                          end_square(move)[2], st.board.pieces[i].player)>>

\* the move_started event of a move
move_started(st, move) ==
    GameEvent("move_started", st.current_tick, [piece_id |-> move.piece_id, path |-> move.path])

\* GameEngine.apply_move
apply_move(st, move) ==
    LET extra == move.extra_move
    IN  [state |-> [st EXCEPT
            !.active_moves = st.active_moves \o <<move>> \o extra,
            !.last_move_tick = st.current_tick,
            !.replay_moves = st.replay_moves \o replay_record(st, move)
                \o (IF extra # None THEN replay_record(st, extra[1]) ELSE <<>>)],
         events |-> <<move_started(st, move)>>
                \o (IF extra # None THEN <<move_started(st, extra[1])>> ELSE <<>>)]

\* GameEngine.check_winner, which does not wait for the minimum game length
check_winner_without_minimum(st) ==
    LET players_with_king == {p \in DOMAIN st.players : get_king(st.board, p) # 0}
        ticks_since_move == st.current_tick - st.last_move_tick
        ticks_since_capture == st.current_tick - st.last_capture_tick
    IN  IF Cardinality(players_with_king) = 1
        THEN Some(CHOOSE p \in players_with_king : TRUE)
        ELSE IF Cardinality(players_with_king) = 0 THEN Some(0)
        ELSE IF ticks_since_move >= draw_no_move_ticks(st.speed)
                /\ ticks_since_capture >= draw_no_capture_ticks(st.speed)
        THEN Some(0)
        ELSE None

\* GameEngine.check_winner: Some(0) draw, Some(p) winner, None game goes on
check_winner(st) ==
    LET players_with_king == {p \in DOMAIN st.players : get_king(st.board, p) # 0}
        ticks_since_move == st.current_tick - st.last_move_tick
        ticks_since_capture == st.current_tick - st.last_capture_tick
    IN  IF Cardinality(players_with_king) = 1
        THEN Some(CHOOSE p \in players_with_king : TRUE)
        ELSE IF Cardinality(players_with_king) = 0 THEN Some(0)
        ELSE IF st.current_tick < min_draw_ticks(st.speed) THEN None
        ELSE IF ticks_since_move >= draw_no_move_ticks(st.speed)
                /\ ticks_since_capture >= draw_no_capture_ticks(st.speed)
        THEN Some(0)
        ELSE None

\* tick(), step 1, one iteration of "for capture in captures", which forgets to filter
\* the cooldowns of the captured piece
capture_piece_keeps_cooldown(acc, capture) ==
    LET st == acc.state
        i == get_piece_by_id(st.board, capture.captured_piece_id)
        m == first_move_of(st.active_moves, capture.captured_piece_id)
        captured_move == st.active_moves[m]
        pieces_to_remove ==
            {capture.captured_piece_id}
                \cup (IF m # 0 /\ captured_move.extra_move # None
                      THEN {captured_move.extra_move[1].piece_id} ELSE {})
        Keep(mv) == mv.piece_id \notin pieces_to_remove
    IN  IF i = 0 THEN acc
        ELSE [state |-> [st EXCEPT
                !.board.pieces[i].captured = TRUE,
                !.last_capture_tick = st.current_tick,
                !.active_moves = SelectSeq(st.active_moves, Keep)],
              events |-> Append(acc.events,
                GameEvent("capture", st.current_tick,
                    [capturing_piece_id |-> capture.capturing_piece_id,
                     captured_piece_id |-> capture.captured_piece_id,
                     position |-> capture.position]))]

\* tick(), step 1, one iteration of "for capture in captures", which removes the move of
\* the captured piece alone and forgets its extra_move
capture_piece_keeps_extra_move(acc, capture) ==
    LET st == acc.state
        i == get_piece_by_id(st.board, capture.captured_piece_id)
        Keep(mv) == mv.piece_id # capture.captured_piece_id
        NotOf(c) == c.piece_id # capture.captured_piece_id
    IN  IF i = 0 THEN acc
        ELSE [state |-> [st EXCEPT
                !.board.pieces[i].captured = TRUE,
                !.last_capture_tick = st.current_tick,
                !.active_moves = SelectSeq(st.active_moves, Keep),
                !.cooldowns = SelectSeq(st.cooldowns, NotOf)],
              events |-> Append(acc.events,
                GameEvent("capture", st.current_tick,
                    [capturing_piece_id |-> capture.capturing_piece_id,
                     captured_piece_id |-> capture.captured_piece_id,
                     position |-> capture.position]))]

\* tick(), step 1, one iteration of "for capture in captures"; acc is [state, events]
capture_piece(acc, capture) ==
    LET st == acc.state
        i == get_piece_by_id(st.board, capture.captured_piece_id)
        m == first_move_of(st.active_moves, capture.captured_piece_id)
        captured_move == st.active_moves[m]
        pieces_to_remove ==
            {capture.captured_piece_id}
                \cup (IF m # 0 /\ captured_move.extra_move # None
                      THEN {captured_move.extra_move[1].piece_id} ELSE {})
        Keep(mv) == mv.piece_id \notin pieces_to_remove
        NotOf(c) == c.piece_id # capture.captured_piece_id
    IN  IF i = 0 THEN acc
        ELSE [state |-> [st EXCEPT
                !.board.pieces[i].captured = TRUE,
                !.last_capture_tick = st.current_tick,
                !.active_moves = SelectSeq(st.active_moves, Keep),
                !.cooldowns = SelectSeq(st.cooldowns, NotOf)],
              events |-> Append(acc.events,
                GameEvent("capture", st.current_tick,
                    [capturing_piece_id |-> capture.capturing_piece_id,
                     captured_piece_id |-> capture.captured_piece_id,
                     position |-> capture.position]))]

\* tick(), step 1: the loop "for capture in captures"
RECURSIVE process_captures(_, _)
process_captures(acc, captures) ==
    IF captures = <<>> THEN acc
    ELSE process_captures(capture_piece(acc, Head(captures)), Tail(captures))

\* tick(), steps 2 and 3, one iteration of "for move in completed_moves"
complete_move(acc, move) ==
    LET st == acc.state
        i == get_piece_by_id(st.board, move.piece_id)
        piece == st.board.pieces[i]
        end == end_square(move)
        Others(mv) == mv.piece_id # move.piece_id
        promote == should_promote_pawn(piece, st.board, end[1], end[2])
        landed == [st EXCEPT
            !.board.pieces[i].row = end[1],
            !.board.pieces[i].col = end[2],
            !.board.pieces[i].moved = TRUE,
            !.board.pieces[i].type = IF promote THEN "Q" ELSE piece.type,
            !.cooldowns = Append(st.cooldowns,
                Cooldown(piece.id, st.current_tick, cooldown_ticks(st.speed))),
            !.active_moves = SelectSeq(st.active_moves, Others)]
        landed_events ==
            <<GameEvent("move_completed", st.current_tick,
                  [piece_id |-> move.piece_id, position |-> end]),
              GameEvent("cooldown_started", st.current_tick,
                  [piece_id |-> piece.id, duration |-> cooldown_ticks(st.speed)])>>
            \o (IF promote
                THEN <<GameEvent("promotion", st.current_tick,
                           [piece_id |-> piece.id, new_type |-> "Q"])>>
                ELSE <<>>)
    IN  IF i # 0 /\ ~piece.captured
        THEN [state |-> landed, events |-> acc.events \o landed_events]
        ELSE [state |-> [st EXCEPT !.active_moves = SelectSeq(st.active_moves, Others)],
              events |-> acc.events]

\* tick(), steps 2 and 3: the loop "for move in completed_moves"
RECURSIVE process_completed(_, _)
process_completed(acc, completed_moves) ==
    IF completed_moves = <<>> THEN acc
    ELSE process_completed(complete_move(acc, Head(completed_moves)), Tail(completed_moves))

\* tick(), step 5, which sets the status and forgets the winner
check_win_conditions_forgets_winner(st, events, captures) ==
    LET winner == check_winner(st)
    IN  IF winner # None
        THEN [state |-> [st EXCEPT !.status = "finished"],
              events |-> Append(events,
                  IF winner[1] = 0 THEN GameEvent("draw", st.current_tick, <<>>)
                  ELSE GameEvent("game_over", st.current_tick, [winner |-> winner[1]])),
              captures |-> captures]
        ELSE [state |-> st, events |-> events, captures |-> captures]

\* tick(), step 5: check win/draw conditions
check_win_conditions(st, events, captures) ==
    LET winner == check_winner(st)
    IN  IF winner # None
        THEN [state |-> [st EXCEPT !.status = "finished", !.winner = winner],
              events |-> Append(events,
                  IF winner[1] = 0 THEN GameEvent("draw", st.current_tick, <<>>)
                  ELSE GameEvent("game_over", st.current_tick, [winner |-> winner[1]])),
              captures |-> captures]
        ELSE [state |-> st, events |-> events, captures |-> captures]

\* GameEngine.tick on a PLAYING game, which takes a move for completed one tick late
tick_playing_late(st) ==
    LET T == ticks_per_square(st.speed)
        s0 == [st EXCEPT !.current_tick = st.current_tick + 1]
        captures == detect_collisions(s0.board.pieces, s0.active_moves, s0.current_tick, T)
        a1 == process_captures([state |-> s0, events |-> <<>>], captures)
        Done(mv) == a1.state.current_tick - mv.start_tick > num_squares(mv) * T
        a2 == process_completed(a1, SelectSeq(a1.state.active_moves, Done))
        Active(c) == is_active(c, a2.state.current_tick)
        s3 == [a2.state EXCEPT !.cooldowns = SelectSeq(a2.state.cooldowns, Active)]
    IN  check_win_conditions(s3, a2.events, captures)

\* GameEngine.tick on a PLAYING game: [state, events], and the captures
\* detect_collisions returned
tick_playing(st) ==
    LET T == ticks_per_square(st.speed)
        s0 == [st EXCEPT !.current_tick = st.current_tick + 1]
        captures == detect_collisions(s0.board.pieces, s0.active_moves, s0.current_tick, T)
        a1 == process_captures([state |-> s0, events |-> <<>>], captures)
        Done(mv) == a1.state.current_tick - mv.start_tick >= num_squares(mv) * T
        a2 == process_completed(a1, SelectSeq(a1.state.active_moves, Done))
        Active(c) == is_active(c, a2.state.current_tick)
        s3 == [a2.state EXCEPT !.cooldowns = SelectSeq(a2.state.cooldowns, Active)]
    IN  check_win_conditions(s3, a2.events, captures)

\* GameEngine.tick without its guard on the status
tick_in_any_status(st) == tick_playing(st)

\* GameEngine.tick
tick(st) ==
    IF st.status # "playing" THEN [state |-> st, events |-> <<>>, captures |-> <<>>]
    ELSE tick_playing(st)

\* ------------------------------------------------------------------------
\* replay.py: Replay, ReplayEngine
\* ------------------------------------------------------------------------
\* Replay.from_game_state (version and created_at are left out)
from_game_state(st) ==
    [speed |-> st.speed, board_type |-> st.board.board_type, players |-> st.players,
     moves |-> st.replay_moves, total_ticks |-> st.current_tick, winner |-> st.winner,
     win_reason |-> IF st.winner = None THEN None
                    ELSE IF st.winner[1] = 0 THEN Some("draw")
                    ELSE Some("king_captured")]

\* _moves_by_tick filled by assignment rather than append: the last move of a tick only
_moves_by_tick_last_only(replay, t) ==
    LET AtTick(m) == m.tick = t
        moves == SelectSeq(replay.moves, AtTick)
    IN  IF moves = <<>> THEN <<>> ELSE <<moves[Len(moves)]>>

\* ReplayEngine._moves_by_tick[tick]
_moves_by_tick(replay, t) ==
    LET AtTick(m) == m.tick = t
    IN SelectSeq(replay.moves, AtTick)

\* "for replay_move in ...: move = validate_move(...); if move: apply_move(state, move)"
apply_if_valid(st, move) == IF move # None THEN apply_move(st, move[1]).state ELSE st

RECURSIVE apply_replay_moves(_, _)
apply_replay_moves(st, replay_moves) ==
    IF replay_moves = <<>> THEN st
    ELSE apply_replay_moves(
            apply_if_valid(st, validate_move(st, Head(replay_moves).player,
                                             Head(replay_moves).piece_id,
                                             Head(replay_moves).to_row,
                                             Head(replay_moves).to_col)),
            Tail(replay_moves))

\* one iteration of the loop of get_state_at_tick: the moves of this tick, then tick()
replay_iteration(replay, st) ==
    tick(apply_replay_moves(st, _moves_by_tick(replay, st.current_tick))).state

\* "while state.current_tick < target_tick": Some(state) when the loop ends; None when an
\* iteration leaves the state as it found it, so that the loop never ends
RECURSIVE replay_loop(_, _, _)
RECURSIVE replay_loop_from(_, _, _, _)
replay_loop(replay, st, target_tick) ==
    IF ~(st.current_tick < target_tick) THEN Some(st)
    ELSE replay_loop_from(replay, st, replay_iteration(replay, st), target_tick)

replay_loop_from(replay, st, next_state, target_tick) ==
    IF next_state = st THEN None ELSE replay_loop(replay, next_state, target_tick)

\* ReplayEngine.get_state_at_tick; the game id create_game draws is written "uuid"
get_state_at_tick(replay, target_tick) ==
    replay_loop(replay,
                [create_game(replay.speed, replay.players, replay.board_type, "uuid")
                    EXCEPT !.status = "playing"],
                target_tick)

\* ------------------------------------------------------------------------
\* The games of the model: the positions of the engine's unit tests and the
\* opening position of create_game, each with the move requests that are tried
\* ------------------------------------------------------------------------
Speeds == {"lightning"}

PLAYERS_HUMANS == (1 :> "u:1") @@ (2 :> "u:2")
PLAYERS_VS_BOT == (1 :> "u:1") @@ (2 :> "bot:novice")

\* a move request: player, piece id, destination
Req(player, type, owner, row, col, to_row, to_col) ==
    [player |-> player, piece_id |-> PieceId(type, owner, row, col), to_row |-> to_row, to_col |-> to_col]

Games ==
    { [game_id |-> "CAPTURE", players |-> PLAYERS_HUMANS,
       board |-> Some(BoardOf(<<CreatePiece("K", 1, 7, 4), CreatePiece("K", 2, 0, 4),
                                CreatePiece("Q", 1, 4, 0), CreatePiece("P", 2, 4, 3)>>))],
      [game_id |-> "DUEL", players |-> PLAYERS_HUMANS,
       board |-> Some(BoardOf(<<CreatePiece("K", 1, 7, 4), CreatePiece("K", 2, 0, 4),
                                CreatePiece("R", 1, 4, 0), CreatePiece("R", 2, 4, 7)>>))],
      [game_id |-> "CASTLE", players |-> PLAYERS_VS_BOT,
       board |-> Some(BoardOf(<<CreatePiece("K", 1, 7, 4), CreatePiece("R", 1, 7, 7),
                                CreatePiece("B", 2, 6, 4), CreatePiece("K", 2, 0, 4)>>))],
      [game_id |-> "KNIGHT", players |-> PLAYERS_HUMANS,
       board |-> Some(BoardOf(<<CreatePiece("K", 1, 7, 4), CreatePiece("K", 2, 0, 4),
                                CreatePiece("N", 1, 7, 1), CreatePiece("P", 2, 5, 2)>>))],
      [game_id |-> "PROMOTION", players |-> PLAYERS_HUMANS,
       board |-> Some(BoardOf(<<CreatePiece("P", 1, 1, 4), CreatePiece("K", 1, 7, 4),
                                CreatePiece("K", 2, 0, 0)>>))],
      [game_id |-> "OPENING", players |-> PLAYERS_VS_BOT, board |-> None] }

Requests(game_id) ==
    CASE game_id = "CAPTURE" ->
            { Req(1, "Q", 1, 4, 0, 4, 3), Req(1, "Q", 1, 4, 0, 0, 4),
              Req(2, "P", 2, 4, 3, 5, 3), Req(2, "Q", 1, 4, 0, 4, 1) }
      [] game_id = "DUEL" ->
            { Req(1, "R", 1, 4, 0, 4, 7), Req(2, "R", 2, 4, 7, 4, 0),
              Req(1, "R", 1, 4, 0, 4, 2), Req(2, "K", 2, 0, 4, 0, 3) }
      [] game_id = "CASTLE" ->
            { Req(1, "K", 1, 7, 4, 7, 6), Req(2, "B", 2, 6, 4, 7, 5),
              Req(1, "R", 1, 7, 7, 6, 7), Req(1, "K", 1, 7, 4, 7, 5) }
      [] game_id = "KNIGHT" ->
            { Req(1, "N", 1, 7, 1, 5, 2), Req(2, "P", 2, 5, 2, 6, 2),
              Req(1, "N", 1, 7, 1, 6, 3), Req(1, "N", 1, 7, 1, 7, 3) }
      [] game_id = "PROMOTION" ->
            { Req(1, "P", 1, 1, 4, 0, 4), Req(2, "K", 2, 0, 0, 0, 1),
              Req(1, "P", 1, 1, 4, 0, 3) }
      [] game_id = "SIDEPAWN" ->
            { Req(1, "P", 1, 5, 10, 5, 8), Req(2, "R", 2, 6, 9, 5, 9) }
      [] game_id = "TRIPLE" ->
            { Req(1, "R", 1, 4, 0, 4, 3), Req(1, "Q", 1, 7, 3, 3, 3),
              Req(2, "K", 2, 0, 4, 0, 5) }
      [] game_id = "BLOCK" ->
            { Req(1, "R", 1, 4, 0, 4, 7), Req(1, "R", 1, 4, 0, 4, 3),
              Req(1, "R", 1, 4, 0, 4, 2), Req(1, "R", 1, 4, 0, 1, 0),
              Req(1, "P", 1, 2, 0, 1, 0) }
      [] OTHER ->
            { Req(1, "P", 1, 6, 4, 4, 4), Req(1, "Q", 1, 7, 3, 3, 7),
              Req(1, "Q", 1, 7, 3, 0, 4), Req(2, "P", 2, 1, 6, 2, 6) }

NoCall == [op |-> "none", events |-> <<>>, captures |-> <<>>]

\* a move request arrives only at these ticks
RequestTick(t) == t % IntentPeriod < IntentBurst

Init ==
    /\ \E g \in Games, speed \in Speeds :
          state = IF g.board = None
                  THEN create_game(speed, g.players, "standard", g.game_id)
                  ELSE create_game_from_board(speed, g.players, g.board[1], g.game_id)
    /\ last = NoCall
    /\ session = None
    /\ hs = None
    /\ manager = None
    /\ db = None

\* a client's ready message: GameEngine.set_player_ready
SetPlayerReady(player) ==
    LET r == set_player_ready(state, player)
    IN  /\ RequestTick(state.current_tick)
        /\ state' = r.state
        /\ last' = [op |-> "set_player_ready", events |-> r.events, captures |-> <<>>]
        /\ UNCHANGED <<session, hs, manager, db>>

\* a client's move message: GameEngine.validate_move, then GameEngine.apply_move of its result
MakeMove(q) ==
    LET move == validate_move(state, q.player, q.piece_id, q.to_row, q.to_col)
        r == apply_move(state, move[1])
    IN  /\ RequestTick(state.current_tick)
        /\ Len(state.replay_moves) < MaxMoves
        /\ IF move = None
           THEN /\ state' = state
                /\ last' = [op |-> "validate_move", events |-> <<>>, captures |-> <<>>]
           ELSE /\ state' = r.state
                /\ last' = [op |-> "apply_move", events |-> r.events, captures |-> <<>>]
        /\ UNCHANGED <<session, hs, manager, db>>

\* the game loop's step: GameEngine.tick
Tick ==
    LET r == tick(state)
    IN  /\ state.current_tick < MaxTick
        /\ state' = r.state
        /\ last' = [op |-> "tick", events |-> r.events, captures |-> r.captures]
        /\ UNCHANGED <<session, hs, manager, db>>

Next ==
    \/ \E player \in 1..3 : SetPlayerReady(player)
    \/ \E q \in Requests(state.game_id) : MakeMove(q)
    \/ Tick

Spec == Init /\ [][Next]_vars

\* ------------------------------------------------------------------------
\* Properties
\* ------------------------------------------------------------------------
T_of(st) == ticks_per_square(st.speed)

\* the game was made by create_game: its pieces are those of the standard layout
from_create_game(st) ==
    [i \in 1..Len(st.board.pieces) |-> st.board.pieces[i].id]
        = [i \in 1..Len(create_standard.pieces) |-> create_standard.pieces[i].id]

\* replaying the Replay of a finished game up to total_ticks ends finished, with the
\* game's winner and win reason, at current_tick = total_ticks
replay_agrees(st) ==
    LET replay == from_game_state(st)
        replayed == get_state_at_tick(replay, replay.total_ticks)
    IN  /\ replayed # None
        /\ replayed[1].status = "finished"
        /\ replayed[1].winner = st.winner
        /\ replayed[1].win_reason = st.win_reason
        /\ from_game_state(replayed[1]).win_reason = replay.win_reason
        /\ replayed[1].current_tick = replay.total_ticks

\* C1, as stated: every game played until FINISHED, whatever its initial board, replays
\* from its Replay to a FINISHED state with the same winner, the same win reason and
\* current_tick = total_ticks.
C1_ReplayAgreesAnyGame == state.status = "finished" => replay_agrees(state)

\* C1, amended: every game made by GameEngine.create_game and played until FINISHED
\* replays from its Replay to a FINISHED state with the same winner, the same win reason
\* and current_tick = total_ticks.
C1_ReplayAgrees == state.status = "finished" /\ from_create_game(state) => replay_agrees(state)

\* a game on the opening position has ended by the capture of a king
C1_Witness ==
    /\ state.status = "finished"
    /\ from_create_game(state)
    /\ state.winner = Some(1)
    /\ Len(state.replay_moves) >= 3

\* C2: current_tick never decreases over set_player_ready, apply_move and tick; tick()
\* on a PLAYING game raises it by exactly one; tick() in any other status leaves the
\* state unchanged and returns no events.
C2_TickCounter ==
    [][ /\ state'.current_tick >= state.current_tick
        /\ (last'.op = "tick" /\ state.status = "playing"
                => state'.current_tick = state.current_tick + 1)
        /\ (last'.op = "tick" /\ state.status # "playing"
                => state' = state /\ last'.events = <<>>) ]_vars

\* tick() has been called on a finished game, after ticks that advanced the counter
C2_Witness ==
    /\ last.op = "tick"
    /\ last.events = <<>>
    /\ state.status = "finished"
    /\ state.current_tick > 0

\* C3: no piece id occurs in more than one entry of active_moves (the rook of a castling
\* included), the moves being those validate_move returned.
C3_OneMovePerPiece ==
    \A i, j \in 1..Len(state.active_moves) :
        state.active_moves[i].piece_id = state.active_moves[j].piece_id => i = j

\* a castling is in flight, king and rook both moving, and a third piece moves as well
C3_Witness ==
    /\ Len(state.active_moves) >= 3
    /\ \E k \in 1..Len(state.active_moves) :
          /\ state.active_moves[k].extra_move # None
          /\ is_piece_moving(state.active_moves[k].extra_move[1].piece_id, state.active_moves)

\* C4: a captured piece has no entry in active_moves and none in cooldowns.
C4_CapturedPieceIdle ==
    \A i \in 1..Len(state.board.pieces) :
        state.board.pieces[i].captured =>
            /\ ~is_piece_moving(state.board.pieces[i].id, state.active_moves)
            /\ \A k \in 1..Len(state.cooldowns) :
                  state.cooldowns[k].piece_id # state.board.pieces[i].id

\* the tick just run captured a piece whose move was in flight (requested at most T ticks ago)
C4_Witness ==
    /\ last.op = "tick"
    /\ \E e \in 1..Len(last.events), r \in 1..Len(state.replay_moves) :
          /\ last.events[e].type = "capture"
          /\ state.replay_moves[r].piece_id = last.events[e].data.captured_piece_id
          /\ state.current_tick <= state.replay_moves[r].tick + T_of(state)

\* the piece with that id is captured
is_captured(st, piece_id) ==
    LET i == get_piece_by_id(st.board, piece_id)
    IN i # 0 /\ st.board.pieces[i].captured

\* C5: when a king whose castling move is active is captured during a tick, then at the
\* end of that tick neither the king's move nor the paired rook's move is in active_moves.
C5_CastlingCancelled ==
    [][ \A k \in 1..Len(state.active_moves) :
            LET m == state.active_moves[k]
            IN  /\ last'.op = "tick"
                /\ m.extra_move # None
                /\ ~is_captured(state, m.piece_id)
                /\ is_captured(state', m.piece_id)
                => /\ ~is_piece_moving(m.piece_id, state'.active_moves)
                   /\ ~is_piece_moving(m.extra_move[1].piece_id, state'.active_moves) ]_vars

\* the tick just run captured a king that had castled at most T ticks before, so that the
\* rook's move (one segment, T ticks) was still in flight, and the rook itself survives
C5_Witness ==
    /\ last.op = "tick"
    /\ \E e \in 1..Len(last.events), r \in 1..(Len(state.replay_moves) - 1) :
          LET king == state.replay_moves[r]
              rook == state.replay_moves[r + 1]
          IN  /\ last.events[e].type = "capture"
              /\ last.events[e].data.captured_piece_id = king.piece_id
              /\ king.piece_id = "K:1:7:4"
              /\ rook.piece_id = "R:1:7:7"
              /\ rook.tick = king.tick
              /\ state.current_tick <= rook.tick + T_of(state)
              /\ ~is_captured(state, rook.piece_id)
              /\ ~is_piece_moving(rook.piece_id, state.active_moves)

\* C6, as stated: status FINISHED implies that active_moves is empty and winner is not null.
C6_FinishedIdle ==
    state.status = "finished" => state.active_moves = <<>> /\ state.winner # None

\* C6, amended: status FINISHED implies that winner is not null; the moves in flight when
\* the game ended stay in active_moves.
C6_FinishedHasWinner ==
    state.status = "finished" => state.winner # None

\* a game has ended while the capturing piece was still on its way
C6_Witness ==
    /\ state.status = "finished"
    /\ state.winner # None
    /\ state.active_moves # <<>>

\* C7: every cooldown c seen between two engine calls satisfies
\* 0 <= current_tick - c.start_tick < c.duration.
C7_CooldownsLive ==
    \A k \in 1..Len(state.cooldowns) :
        /\ 0 <= state.current_tick - state.cooldowns[k].start_tick
        /\ state.current_tick - state.cooldowns[k].start_tick < state.cooldowns[k].duration

\* a cooldown is in its last tick
C7_Witness ==
    \E k \in 1..Len(state.cooldowns) :
        state.current_tick - state.cooldowns[k].start_tick = state.cooldowns[k].duration - 1

\* the piece is a knight
is_knight(st, piece_id) ==
    LET i == get_piece_by_id(st.board, piece_id)
    IN i # 0 /\ st.board.pieces[i].type = "N"

\* C8: a knight whose active move has been in motion for less than 85% of its 2T ticks is
\* neither the capturing nor the captured piece of any Capture detect_collisions returns.
C8_AirborneKnight ==
    [][ last'.op = "tick" =>
          \A k \in 1..Len(state.active_moves), c \in 1..Len(last'.captures) :
              LET m == state.active_moves[k]
              IN  /\ is_knight(state, m.piece_id)
                  /\ 100 * (state'.current_tick - m.start_tick) < 85 * (2 * T_of(state))
                  => /\ last'.captures[c].capturing_piece_id # m.piece_id
                     /\ last'.captures[c].captured_piece_id # m.piece_id ]_vars

\* the tick just run saw a knight in its jump closer than the capture distance to an enemy
\* piece, and captured nothing
C8_Witness ==
    /\ last.op = "tick"
    /\ last.captures = <<>>
    /\ \E k \in 1..Len(state.active_moves), j \in 1..Len(state.board.pieces) :
          LET m == state.active_moves[k]
              i == get_piece_by_id(state.board, m.piece_id)
              T == T_of(state)
          IN  /\ is_knight(state, m.piece_id)
              /\ 100 * (state.current_tick - m.start_tick) < 85 * (2 * T)
              /\ ~state.board.pieces[j].captured
              /\ state.board.pieces[j].player # state.board.pieces[i].player
              /\ within_capture_distance(
                    get_interpolated_position(state.board.pieces[i], state.active_moves,
                                              state.current_tick, T),
                    get_interpolated_position(state.board.pieces[j], state.active_moves,
                                              state.current_tick, T), T)

\* ------------------------------------------------------------------------
\* replay/session.py: ReplaySession, one client's playback of a Replay
\* ------------------------------------------------------------------------
\* the ticks that seek messages ask for, besides -1
SeekNear == 3
SeekFar == 20
SeekBeyond == 200

SeekTicks == {-1, 0, SeekNear, SeekFar, SeekBeyond}

\* Replay dataclass (version and created_at are left out)
Replay(speed, board_type, players, moves, total_ticks, winner, win_reason) ==
    [speed |-> speed, board_type |-> board_type, players |-> players, moves |-> moves,
     total_ticks |-> total_ticks, winner |-> winner, win_reason |-> win_reason]

\* the replays played back, all of games on the opening position that ended by resignation:
\* a game with development and castling (two moves share tick 0, the second move of tick 2
\* is refused, the rook's record of the castling repeats the rook move the king's record
\* brings along), a game in which the white queen takes a pawn on h5 (three moves share
\* tick 0, the move of tick 5 is refused), and a game without moves
Replays ==
    { Replay("lightning", "standard", PLAYERS_HUMANS,
             << ReplayMove(0, PieceId("N", 1, 7, 6), 5, 5, 1),
                ReplayMove(0, PieceId("P", 2, 1, 4), 3, 4, 2),
                ReplayMove(2, PieceId("P", 1, 6, 4), 5, 4, 1),
                ReplayMove(2, PieceId("P", 1, 6, 4), 4, 4, 1),
                ReplayMove(9, PieceId("B", 1, 7, 5), 6, 4, 1),
                ReplayMove(16, PieceId("K", 1, 7, 4), 7, 6, 1),
                ReplayMove(16, PieceId("R", 1, 7, 7), 7, 5, 1) >>,
             24, Some(2), Some("resignation")),
      Replay("lightning", "standard", PLAYERS_HUMANS,
             << ReplayMove(0, PieceId("P", 1, 6, 4), 4, 4, 1),
                ReplayMove(0, PieceId("Q", 1, 7, 3), 3, 7, 1),
                ReplayMove(0, PieceId("P", 2, 1, 7), 3, 7, 2),
                ReplayMove(5, PieceId("P", 1, 6, 4), 5, 4, 1) >>,
             26, Some(1), Some("resignation")),
      Replay("lightning", "standard", PLAYERS_VS_BOT, <<>>, 5, Some(1), Some("resignation")) }

\* ReplaySession.__init__; started, pc, was_playing and seek_tick hold the position of the
\* handler that feeds the session (ws/replay_handler.py) and the locals of seek();
\* advanced counts the one-tick advances since the cache was last rebuilt; tasks holds
\* the playback tasks that are not done, each [id, pc] with pc "loop" (in the while loop
\* of _playback_loop) or "finally" (past its break), _playback_task the id of the task
\* the session refers to (0: None)
ReplaySession(replay) ==
    [replay |-> replay, current_tick |-> 0, is_playing |-> FALSE, _closed |-> FALSE,
     _cached_state |-> None, _cached_tick |-> -1,
     _prev_active_move_ids |-> {}, _prev_cooldown_ids |-> {}, _is_first_tick |-> TRUE,
     pc |-> "start", was_playing |-> FALSE, seek_tick |-> 0, advanced |-> 0,
     _playback_task |-> 0, tasks |-> {}]

\* ReplayEngine.advance_one_tick(state), which session.py calls: the replay moves recorded
\* at the tick of the cached state, each validated and the refused ones skipped, then tick()
advance_one_tick(replay, st) ==
    LET RecordedNow(m) == m.tick = st.current_tick
    IN  tick(apply_replay_moves(st, SelectSeq(replay.moves, RecordedNow))).state

\* ReplaySession._get_state_at_tick: the session after the call; the state returned is its
\* _cached_state
_get_state_at_tick(s, t) ==
    IF s._cached_state # None /\ s._cached_tick = t THEN s
    ELSE IF s._cached_state # None /\ s._cached_tick = t - 1
    THEN [s EXCEPT !._cached_state = Some(advance_one_tick(s.replay, s._cached_state[1])),
                   !._cached_tick = t,
                   !.advanced = @ + 1]
    ELSE [s EXCEPT !._cached_state = get_state_at_tick(s.replay, t),
                   !._cached_tick = t,
                   !.advanced = 0]

\* ReplaySession._invalidate_cache
_invalidate_cache(s) ==
    [s EXCEPT !._cached_state = None, !._cached_tick = -1,
              !._prev_active_move_ids = {}, !._prev_cooldown_ids = {},
              !._is_first_tick = TRUE, !.advanced = 0]

\* ReplaySession._send_state_at_tick, up to the send
_send_state_at_tick(s, t) ==
    IF s._closed THEN s ELSE _get_state_at_tick(s, t)

\* {m.piece_id for m in state.active_moves}, {c.piece_id for c in state.cooldowns}
active_move_ids(st) == {st.active_moves[k].piece_id : k \in DOMAIN st.active_moves}
cooldown_ids(st) == {st.cooldowns[k].piece_id : k \in DOMAIN st.cooldowns}

\* "state_changed" of _send_state_at_tick_if_changed, for the state st that was fetched
state_changed(s, st) ==
    \/ s._is_first_tick
    \/ s._prev_active_move_ids # active_move_ids(st)
    \/ s._prev_cooldown_ids # cooldown_ids(st)

\* the rest of _send_state_at_tick_if_changed once the state is fetched: the session after
\* it, and whether send_json raised (then the tracking of the previous state is not reached)
send_if_changed(got, sent) ==
    IF state_changed(got, got._cached_state[1]) /\ ~sent THEN <<got, TRUE>>
    ELSE << [got EXCEPT !._prev_active_move_ids = active_move_ids(got._cached_state[1]),
                        !._prev_cooldown_ids = cooldown_ids(got._cached_state[1]),
                        !._is_first_tick = FALSE],
            FALSE >>

\* ReplaySession._send_state_at_tick_if_changed; sent tells whether send_json returns
_send_state_at_tick_if_changed(s, t, sent) ==
    IF s._closed THEN <<s, FALSE>> ELSE send_if_changed(_get_state_at_tick(s, t), sent)

\* asyncio.create_task(self._playback_loop()): the session with the new task, which
\* takes the first id that no task that is not done and no reference of the session has
create_task(s) ==
    LET used == {t.id : t \in s.tasks} \cup {s._playback_task}
        id == CHOOSE n \in 1..(Cardinality(used) + 1) :
                 n \notin used /\ \A m \in 1..(n - 1) : m \in used
    IN  [s EXCEPT !._playback_task = id, !.tasks = @ \cup {[id |-> id, pc |-> "loop"]}]

\* ReplaySession.play without its look at is_playing
play_again(s) ==
    IF s._closed THEN s
    ELSE IF s.current_tick >= s.replay.total_ticks THEN s
    ELSE create_task([s EXCEPT !.is_playing = TRUE])

\* ReplaySession.play
play(s) ==
    IF s.is_playing \/ s._closed THEN s
    ELSE IF s.current_tick >= s.replay.total_ticks THEN s
    ELSE create_task([s EXCEPT !.is_playing = TRUE])

\* ReplaySession.pause: the task the session refers to is cancelled and awaited
pause(s) ==
    [s EXCEPT !.is_playing = FALSE,
              !._playback_task = 0,
              !.tasks = {t \in @ : t.id # s._playback_task}]

\* ReplaySession.close
close(s) == [pause(s) EXCEPT !._closed = TRUE]

\* ReplaySession.seek after its first look at is_playing: pause, the clamped tick and the
\* emptied cache, the state shown, playback resumed
seek_to(paused) ==
    _invalidate_cache(
        [paused EXCEPT !.current_tick = Max(0, Min(paused.seek_tick, paused.replay.total_ticks))])

seek_resume(shown, sent) ==
    IF ~sent THEN shown
    ELSE IF shown.was_playing /\ shown.current_tick < shown.replay.total_ticks THEN play(shown)
    ELSE shown

seek_moved(moved) == _send_state_at_tick(moved, moved.current_tick)

\* seek() up to its send: the session paused, and moved and shown unless it is closed
seek_shown(s) == IF s._closed THEN pause(s) ELSE seek_moved(seek_to(pause(s)))

\* seek() from its send on, which returns or raises
seek(s, shown, sent) == IF s._closed THEN shown ELSE seek_resume(shown, sent)

\* one round of ReplaySession._playback_loop past its two exits: the tick is advanced, the
\* state sent if it changed; a send that raises closes the session, the last tick ends
\* the playback
round_end(shown, raised, sent) ==
    IF raised THEN [shown EXCEPT !._closed = TRUE, !.is_playing = FALSE]
    ELSE IF shown.current_tick >= shown.replay.total_ticks
    THEN [shown EXCEPT !.is_playing = FALSE, !._closed = ~sent]
    ELSE shown

round_sent(r, sent) == round_end(r[1], r[2], sent)

round_step(stepped, sent) ==
    round_sent(_send_state_at_tick_if_changed(stepped, stepped.current_tick, sent), sent)

playback_round(s, sent) == round_step([s EXCEPT !.current_tick = @ + 1], sent)

\* the task leaves the while loop of _playback_loop for its finally block
break(s, task) ==
    [s EXCEPT !.tasks = (@ \ {task}) \cup {[task EXCEPT !.pc = "finally"]}]

\* the end of a round of _playback_loop: the loop is left when the round stopped the
\* playback
round_done(r, task) == IF r.is_playing THEN r ELSE break(r, task)

\* ReplaySession._playback_loop, one round of the task after its sleep: the two exits
\* under the lock, then the round
_playback_loop(s, task, sent) ==
    IF ~s.is_playing \/ s._closed THEN break(s, task)
    ELSE IF s.current_tick >= s.replay.total_ticks THEN break(s, task)
    ELSE round_done(playback_round(s, sent), task)

\* ReplaySession.start, and the handler's close() when a send of it raises
start(s, shown, failure) ==
    CASE failure = "info" -> [close(s) EXCEPT !.pc = "done"]
      [] failure = "state" -> [close(shown) EXCEPT !.pc = "done"]
      [] OTHER -> [shown EXCEPT !.pc = "idle"]

SessionInit ==
    /\ \E replay \in Replays :
          /\ session = ReplaySession(replay)
          /\ state = create_game(replay.speed, replay.players, replay.board_type, "uuid")
    /\ last = NoCall
    /\ hs = None
    /\ manager = None
    /\ db = None

\* handle_replay_websocket: session.start(), and session.close() when it raises
SessionStart(failure) ==
    /\ session.pc = "start"
    /\ session' = start(session, _send_state_at_tick(session, 0), failure)
    /\ UNCHANGED <<state, last, hs, manager, db>>

\* {"type": "play"}
SessionPlay ==
    /\ session.pc = "idle"
    /\ session' = play(session)
    /\ UNCHANGED <<state, last, hs, manager, db>>

\* {"type": "pause"}
SessionPause ==
    /\ session.pc = "idle"
    /\ session' = pause(session)
    /\ UNCHANGED <<state, last, hs, manager, db>>

\* {"type": "seek", "tick": t}: seek() reads is_playing under the lock and lets go of it
SessionSeekBegin(t) ==
    /\ session.pc = "idle"
    /\ session' = [session EXCEPT !.pc = "seek", !.seek_tick = t,
                                  !.was_playing = session.is_playing]
    /\ UNCHANGED <<state, last, hs, manager, db>>

\* seek() pauses, takes the lock again, moves, shows the state and resumes
SessionSeekEnd ==
    /\ session.pc = "seek"
    /\ \E shown \in {seek_shown(session)}, sent \in BOOLEAN :
          session' = [seek(session, shown, sent) EXCEPT !.pc = "idle", !.seek_tick = 0,
                                                        !.was_playing = FALSE]
    /\ UNCHANGED <<state, last, hs, manager, db>>

\* a playback task runs one round of its loop
PlaybackStep(sent) ==
    /\ \E task \in session.tasks :
          /\ task.pc = "loop"
          /\ session' = _playback_loop(session, task, sent)
    /\ UNCHANGED <<state, last, hs, manager, db>>

\* a playback task runs its finally block (the playback status is sent unless the
\* session is closed) and is done
PlaybackFinally ==
    /\ \E task \in session.tasks :
          /\ task.pc = "finally"
          /\ session' = [session EXCEPT !.tasks = @ \ {task}]
    /\ UNCHANGED <<state, last, hs, manager, db>>

\* the client disconnects: the handler's "finally: await session.close()"
SessionClose ==
    /\ session.pc = "idle"
    /\ session' = [close(session) EXCEPT !.pc = "done"]
    /\ UNCHANGED <<state, last, hs, manager, db>>

SessionNext ==
    \/ \E failure \in {"none", "info", "state"} : SessionStart(failure)
    \/ SessionPlay
    \/ SessionPause
    \/ \E t \in SeekTicks : SessionSeekBegin(t)
    \/ SessionSeekEnd
    \/ \E sent \in BOOLEAN : PlaybackStep(sent)
    \/ PlaybackFinally
    \/ SessionClose

SpecSession == SessionInit /\ [][SessionNext]_vars

\* two game states agree in every field but the random game id
same_game(a, b) == [a EXCEPT !.game_id = ""] = [b EXCEPT !.game_id = ""]

C9_WitnessSeek ==
    /\ session._cached_state # None
    /\ session.advanced > 0
    /\ session._cached_tick = SeekFar + session.advanced
    /\ Len(session._cached_state[1].replay_moves) = 6

\* ------------------------------------------------------------------------
\* ws/handler.py and services/game_service.py: the websocket handlers of one
\* game and its game loop tasks
\* ------------------------------------------------------------------------
\* websocket connections made to the game
MaxConnects == 2
\* ticks the game loops add to the game they find
LoopTicks == 2

\* the moves the bot's random choice is drawn from (DummyAI.get_move), besides no move
BotMoves == { Req(2, "P", 2, 1, 4, 3, 4), Req(2, "N", 2, 0, 6, 2, 5) }

\* ManagedGame.player_keys of a game made by GameService.create_game: the human player's key
player_keys == (1 :> "KEY1")

\* the module's state for one game: connection_manager.connections[game_id] (websockets
\* by number), the handle_websocket coroutine of every websocket (its position, the key it
\* came with, its player, the tick of the last state message sent to it),
\* _game_loop_locks[game_id] (the lock's serial number), managed_game.loop_task (a task's
\* number), every _run_game_loop task created, whether the game was removed from
\* GameService.games, the coroutine that runs between two awaits and the coroutines
\* inside GameService.tick or make_move, the last state message composed by a loop, the
\* last move make_move accepted, and what a loop did from the tick that finished the game
\* on; locks_made and declined count lock objects and start requests that found a live
\* task, limit is the last tick of the model
HandlerState ==
    [connections |-> {}, handlers |-> <<>>, lock |-> None, locks_made |-> 0,
     loop_task |-> None, tasks |-> <<>>, declined |-> 0, removed |-> FALSE,
     running |-> None, in_engine |-> {}, snap |-> None, accepted |-> None,
     log |-> <<>>, limit |-> 0]

\* a task made by asyncio.create_task(_run_game_loop(game_id)): its position, the copy of the
\* connections a broadcast still sends to, the connections whose send raised, the tick of
\* the message
LoopTask == [pc |-> "pending", to_send |-> {}, failed |-> {}, tick |-> 0]

\* no coroutine is between two of its awaits
idle(h) == h.running = None

\* a call that yields to the event loop while it runs, as a coroutine with an await does
enter_suspended(h, c) == [h EXCEPT !.in_engine = @ \cup {c}]

\* a call of GameService.tick or GameService.make_move: plain functions, which run to
\* their end before the event loop resumes another coroutine
enter(h, c) == [h EXCEPT !.running = Some(c), !.in_engine = @ \cup {c}]

\* the return of the call
leave(h, c) == [h EXCEPT !.running = None, !.in_engine = @ \ {c}]

\* validate_player_key that takes every key for the first player's
validate_player_key_any(h, key) == IF h.removed THEN None ELSE Some(1)

\* GameService.validate_player_key: Some(player number), or None
validate_player_key(h, key) ==
    IF h.removed THEN None
    ELSE IF \E p \in DOMAIN player_keys : player_keys[p] = key
    THEN Some(CHOOSE p \in DOMAIN player_keys : player_keys[p] = key)
    ELSE None

\* _get_game_loop_lock: the lock of the game, made when there is none
_get_game_loop_lock(h) ==
    IF h.lock = None
    THEN [h EXCEPT !.lock = Some(h.locks_made + 1), !.locks_made = @ + 1]
    ELSE h

\* asyncio.Task.done
done(h, t) == h.tasks[t].pc = "done"

\* the body of _start_game_loop_if_needed under the lock, with no check of loop_task
start_loop_unchecked(h, st) ==
    IF h.removed \/ st.status # "playing" THEN h
    ELSE [h EXCEPT !.tasks = Append(@, LoopTask), !.loop_task = Some(Len(h.tasks) + 1)]

\* the body of _start_game_loop_if_needed under the lock; the lock is free whenever a
\* coroutine comes to it, since no coroutine waits while it holds it
start_loop_locked(h, st) ==
    IF h.removed \/ st.status # "playing" THEN h
    ELSE IF h.loop_task = None \/ done(h, h.loop_task[1])
    THEN [h EXCEPT !.tasks = Append(@, LoopTask), !.loop_task = Some(Len(h.tasks) + 1)]
    ELSE [h EXCEPT !.declined = @ + 1]

\* _start_game_loop_if_needed
_start_game_loop_if_needed(h, st) == start_loop_locked(_get_game_loop_lock(h), st)

\* ConnectionManager.broadcast of the game_started message: a send to a websocket whose
\* handler is gone raises, and the connection is dropped
broadcast(h) ==
    [h EXCEPT !.connections = {w \in @ : h.handlers[w].pc # "gone"}]

\* GameService.mark_ready: the state and whether the game started
mark_ready(h, st, key) ==
    LET player == validate_player_key(h, key)
        r == set_player_ready(st, player[1])
    IN  IF player = None \/ st.status # "waiting"
        THEN [state |-> st, game_started |-> FALSE]
        ELSE [state |-> r.state,
              game_started |-> \E k \in DOMAIN r.events : r.events[k].type = "game_started"]

\* GameService.make_move: the state, and the move when it was accepted
make_move_result(st, move) ==
    IF move = None THEN [state |-> st, move |-> None]
    ELSE [state |-> apply_move(st, move[1]).state, move |-> move]

make_move(h, st, key, q) ==
    LET player == validate_player_key(h, key)
    IN  IF player = None \/ st.status # "playing" THEN [state |-> st, move |-> None]
        ELSE make_move_result(st, validate_move(st, player[1], q.piece_id, q.to_row, q.to_col))

\* GameService.tick: the bot's move, if it makes one and the move is valid, then the
\* engine's tick
service_tick(st, bot_move) ==
    IF st.status # "playing" THEN st
    ELSE IF bot_move = None THEN tick(st).state
    ELSE tick(apply_if_valid(st, validate_move(st, bot_move[1].player, bot_move[1].piece_id,
                                               bot_move[1].to_row, bot_move[1].to_col))).state

\* active_moves_data that leaves out the moves that have not advanced yet
active_moves_data_advanced(st) ==
    SelectSeq([k \in DOMAIN st.active_moves |->
                  [piece_id |-> st.active_moves[k].piece_id, path |-> st.active_moves[k].path,
                   start_tick |-> st.active_moves[k].start_tick,
                   progress |-> <<Min(Max(0, st.current_tick - st.active_moves[k].start_tick),
                                      (Len(st.active_moves[k].path) - 1)
                                         * ticks_per_square(st.speed)),
                                  (Len(st.active_moves[k].path) - 1)
                                     * ticks_per_square(st.speed)>>]],
              LAMBDA m : m.progress[1] > 0)

\* active_moves_data of a state message; progress is written <<elapsed, total_ticks>>
active_moves_data(st) ==
    [k \in DOMAIN st.active_moves |->
        [piece_id |-> st.active_moves[k].piece_id, path |-> st.active_moves[k].path,
         start_tick |-> st.active_moves[k].start_tick,
         progress |-> <<Min(Max(0, st.current_tick - st.active_moves[k].start_tick),
                            (Len(st.active_moves[k].path) - 1) * ticks_per_square(st.speed)),
                        (Len(st.active_moves[k].path) - 1) * ticks_per_square(st.speed)>>]]

\* the state message a loop composes after a tick: its tick and its active moves
StateUpdateMessage(st) ==
    [tick |-> st.current_tick, active_moves |-> active_moves_data(st)]

\* the loop's checks before a tick, without the check for connections
loop_stops_unwatched(h, st) == h.removed \/ st.status # "playing"

\* _run_game_loop, the checks before a tick: the game is gone from the registry, it is
\* not playing, or nobody is connected
loop_stops(h, st) == h.removed \/ st.status # "playing" \/ h.connections = {}

\* the "finally" of _run_game_loop: the lock of the game is deleted, the task is done
loop_exit(h, t) == [h EXCEPT !.lock = None, !.tasks[t].pc = "done"]

\* connection_manager.broadcast by a loop, up to its first send: the copy of the connections
begin_broadcast(h, t, kind, msg_tick) ==
    [h EXCEPT !.tasks[t] = [pc |-> kind, to_send |-> h.connections, failed |-> {},
                            tick |-> msg_tick]]

\* "await _save_replay(game_id, service)"
to_saving(h, t) == [h EXCEPT !.tasks[t].pc = "saving", !.log = Append(@, "save_replay")]

\* the broadcast of the game_over message; with no connection it returns at once
start_game_over(h, t) ==
    IF h.connections = {} THEN to_saving([h EXCEPT !.log = Append(@, "game_over")], t)
    ELSE begin_broadcast([h EXCEPT !.log = Append(@, "game_over")], t, "game_over",
                         h.tasks[t].tick)

\* the end of a broadcast in a loop that has no check for the end of the game
broadcast_done_no_game_over(h, t, st) ==
    [h EXCEPT !.connections = @ \ h.tasks[t].failed, !.tasks[t].pc = "sleeping"]

\* the end of a broadcast and what follows it in the loop: the connections whose send
\* raised are dropped; after the state message the game_over message if the game is
\* finished, else the sleep; after the game_over message the replay is saved
broadcast_done(h, t, st) ==
    IF h.tasks[t].pc = "state"
    THEN IF st.status = "finished"
         THEN start_game_over([h EXCEPT !.connections = @ \ h.tasks[t].failed], t)
         ELSE [h EXCEPT !.connections = @ \ h.tasks[t].failed, !.tasks[t].pc = "sleeping"]
    ELSE to_saving([h EXCEPT !.connections = @ \ h.tasks[t].failed], t)

\* one "await websocket.send_text(data)" of a broadcast: it raises when the handler of the
\* websocket is gone; a state message sent is the last the connection has seen
send_to(h, t, w) ==
    [h EXCEPT !.tasks[t].to_send = @ \ {w},
              !.tasks[t].failed = IF h.handlers[w].pc = "gone" THEN @ \cup {w} ELSE @,
              !.handlers[w].seen = IF h.handlers[w].pc # "gone" /\ h.tasks[t].pc = "state"
                                   THEN h.tasks[t].tick ELSE @]

\* the loop after service.tick returned st: the state message is composed and its
\* broadcast begins
loop_ticked(h, t, st) ==
    begin_broadcast([h EXCEPT !.snap = Some(StateUpdateMessage(st)),
                              !.log = IF st.status = "finished" THEN Append(@, "state") ELSE @],
                    t, "state", st.current_tick)

\* the opening moves of two games against the bot: one in which the bot's d pawn takes the
\* e pawn, one in which the queen goes to h5 and from there to the black king's square
Openings ==
    { [moves |-> << ReplayMove(0, PieceId("P", 1, 6, 4), 4, 4, 1),
                    ReplayMove(0, PieceId("P", 2, 1, 3), 3, 3, 2),
                    ReplayMove(73, PieceId("P", 2, 1, 3), 4, 4, 2) >>, total_ticks |-> 77],
      [moves |-> << ReplayMove(0, PieceId("P", 1, 6, 4), 4, 4, 1),
                    ReplayMove(0, PieceId("Q", 1, 7, 3), 3, 7, 1),
                    ReplayMove(85, PieceId("Q", 1, 7, 3), 0, 4, 1) >>, total_ticks |-> 101] }

\* the games the handlers find: a game GameService.create_game has just made, and the
\* games of Openings, played until no connection remained and the loop ended
LoopGames ==
    { [state |-> create_game("lightning", PLAYERS_VS_BOT, "standard", "GAME"),
       hs |-> [HandlerState EXCEPT !.limit = LoopTicks]] }
    \cup { [state |-> replay_loop(g, mark_ready(HandlerState,
                                                create_game("lightning", PLAYERS_VS_BOT,
                                                            "standard", "GAME"),
                                                "KEY1").state, g.total_ticks)[1],
            hs |-> [HandlerState EXCEPT !.limit = g.total_ticks + LoopTicks,
                                        !.tasks = <<[LoopTask EXCEPT !.pc = "done"]>>,
                                        !.loop_task = Some(1), !.locks_made = 1]]
           : g \in Openings }

\* the move messages a client sends: the e pawn two squares, the e pawn from e4 to e5, a
\* pawn of the other player
LoopMoves ==
    { [piece_id |-> PieceId("P", 1, 6, 4), to_row |-> 4, to_col |-> 4],
      [piece_id |-> PieceId("P", 1, 6, 4), to_row |-> 3, to_col |-> 4],
      [piece_id |-> PieceId("P", 2, 1, 4), to_row |-> 3, to_col |-> 4] }

\* the keys a client presents
Keys == {"KEY1", "BAD"}

\* what a client asked for: a move or ready message of a websocket, or a request of the API
Intent(op, key) == [op |-> op, key |-> key]

LoopInit ==
    /\ \E g \in LoopGames : state = g.state /\ hs = g.hs
    /\ last = NoCall
    /\ session = None
    /\ manager = None
    /\ db = None

\* handle_websocket up to connection_manager.connect, with a player key or none: a key
\* that is not a player's closes the websocket, as does a game that is gone
Connect(key) ==
    /\ idle(hs)
    /\ Len(hs.handlers) < MaxConnects
    /\ hs' = IF hs.removed \/ (key # None /\ validate_player_key(hs, key[1]) = None) THEN hs
             ELSE [hs EXCEPT !.handlers = Append(@, [pc |-> "connected", key |-> key,
                                                     player |-> IF key = None THEN None
                                                                ELSE validate_player_key(hs, key[1]),
                                                     seen |-> -1]),
                             !.connections = @ \cup {Len(hs.handlers) + 1}]
    /\ last' = NoCall
    /\ UNCHANGED <<state, session, manager, db>>

\* _send_initial_state: when the send raises, handle_websocket ends before its "try" and
\* the connection stays registered; nothing is sent for a game that is gone
SendInitialState(w, sent) ==
    /\ idle(hs)
    /\ hs.handlers[w].pc = "connected"
    /\ hs' = IF hs.removed THEN [hs EXCEPT !.handlers[w].pc = "sent"]
             ELSE IF sent THEN [hs EXCEPT !.handlers[w].pc = "sent",
                                          !.handlers[w].seen = state.current_tick]
             ELSE [hs EXCEPT !.handlers[w].pc = "gone"]
    /\ last' = NoCall
    /\ UNCHANGED <<state, session, manager, db>>

\* handle_websocket: "await _start_game_loop_if_needed(game_id)"
StartOnConnect(w) ==
    /\ idle(hs)
    /\ hs.handlers[w].pc = "sent"
    /\ hs' = [_start_game_loop_if_needed(hs, state) EXCEPT !.handlers[w].pc = "open"]
    /\ last' = NoCall
    /\ UNCHANGED <<state, session, manager, db>>

\* a ready message: _handle_ready up to its broadcast; a spectator gets an error message
Ready(w) ==
    /\ idle(hs)
    /\ hs.handlers[w].pc = "open"
    /\ last' = Intent("ready", hs.handlers[w].key)
    /\ IF hs.handlers[w].player = None \/ hs.removed
       THEN UNCHANGED <<state, hs, manager, db>>
       ELSE /\ state' = mark_ready(hs, state, player_keys[hs.handlers[w].player[1]]).state
            /\ hs' = IF mark_ready(hs, state, player_keys[hs.handlers[w].player[1]]).game_started
                     THEN [broadcast(hs) EXCEPT !.handlers[w].pc = "started"]
                     ELSE hs
    /\ UNCHANGED <<session, manager, db>>

\* _handle_ready after the broadcast: "await _start_game_loop_if_needed(game_id)"
StartOnReady(w) ==
    /\ idle(hs)
    /\ hs.handlers[w].pc = "started"
    /\ hs' = [_start_game_loop_if_needed(hs, state) EXCEPT !.handlers[w].pc = "open"]
    /\ last' = NoCall
    /\ UNCHANGED <<state, session, manager, db>>

\* POST /games/{game_id}/ready (api/games.py): mark_ready without a start of the loop
ApiReady(key) ==
    /\ idle(hs)
    /\ state.status = "waiting"
    /\ state' = mark_ready(hs, state, key).state
    /\ last' = Intent("ready", Some(key))
    /\ UNCHANGED <<hs, session, manager, db>>

\* a move message: _handle_move up to the call of service.make_move; a spectator gets
\* a move_rejected message
MoveBegin(w) ==
    /\ idle(hs)
    /\ hs.handlers[w].pc = "open"
    /\ IF hs.handlers[w].player = None \/ hs.removed
       THEN hs' = hs /\ last' = Intent("move", hs.handlers[w].key)
       ELSE /\ hs' = [enter(hs, <<"ws", w>>) EXCEPT !.handlers[w].pc = "moving"]
            /\ last' = NoCall
    /\ UNCHANGED <<state, session, manager, db>>

\* service.make_move with the key of the websocket's player, and the rest of _handle_move
MoveEnd(w, q) ==
    LET r == make_move(hs, state, player_keys[hs.handlers[w].player[1]], q)
    IN  /\ hs.handlers[w].pc = "moving"
        /\ state' = r.state
        /\ hs' = [leave(hs, <<"ws", w>>) EXCEPT
                    !.handlers[w].pc = "open",
                    !.accepted = IF r.move = None THEN @
                                 ELSE Some([piece_id |-> r.move[1].piece_id,
                                            start_tick |-> r.move[1].start_tick,
                                            at |-> state.current_tick])]
        /\ last' = Intent("move", hs.handlers[w].key)
        /\ UNCHANGED <<session, manager, db>>

\* WebSocketDisconnect in the receive loop: "finally: connection_manager.disconnect"
Disconnect(w) ==
    /\ idle(hs)
    /\ hs.handlers[w].pc = "open"
    /\ hs' = [hs EXCEPT !.handlers[w].pc = "gone", !.connections = @ \ {w}]
    /\ last' = NoCall
    /\ UNCHANGED <<state, session, manager, db>>

\* GameService.cleanup_stale_games, when the game has had no activity for max_age_seconds
CleanupStaleGames ==
    /\ idle(hs)
    /\ ~hs.removed
    /\ hs' = [hs EXCEPT !.removed = TRUE]
    /\ last' = NoCall
    /\ UNCHANGED <<state, session, manager, db>>

\* _run_game_loop from "while True" to the call of service.tick: the loop ends when the
\* game is gone or not playing or nobody is connected
LoopBegin(t) ==
    /\ idle(hs)
    /\ hs.tasks[t].pc \in {"pending", "sleeping"}
    /\ IF loop_stops(hs, state)
       THEN hs' = loop_exit(hs, t)
       ELSE /\ state.current_tick < hs.limit
            /\ hs' = [enter(hs, <<"loop", t>>) EXCEPT !.tasks[t].pc = "ticking"]
    /\ last' = NoCall
    /\ UNCHANGED <<state, session, manager, db>>

\* service.tick and the loop up to the first send of the state message
LoopTick(t, bot_move) ==
    /\ hs.tasks[t].pc = "ticking"
    /\ state' = service_tick(state, bot_move)
    /\ hs' = loop_ticked(leave(hs, <<"loop", t>>), t, state')
    /\ last' = NoCall
    /\ UNCHANGED <<session, manager, db>>

\* one send of a broadcast of the loop, and after the last one the loop up to its next await
LoopSend(t, w) ==
    /\ idle(hs)
    /\ hs.tasks[t].pc \in {"state", "game_over"}
    /\ w \in hs.tasks[t].to_send
    /\ hs' = IF hs.tasks[t].to_send = {w} THEN broadcast_done(send_to(hs, t, w), t, state)
             ELSE send_to(hs, t, w)
    /\ last' = NoCall
    /\ UNCHANGED <<state, session, manager, db>>

\* the loop of a finished game: after _save_replay the lobby is notified, after
\* _notify_lobby_game_ended the loop ends
LoopAfterGame(t) ==
    /\ idle(hs)
    /\ hs.tasks[t].pc \in {"saving", "notifying"}
    /\ hs' = IF hs.tasks[t].pc = "saving"
             THEN [hs EXCEPT !.tasks[t].pc = "notifying", !.log = Append(@, "notify_lobby")]
             ELSE loop_exit([hs EXCEPT !.log = Append(@, "exit")], t)
    /\ last' = NoCall
    /\ UNCHANGED <<state, session, manager, db>>

LoopNext ==
    \/ \E key \in {None} \cup {Some(k) : k \in Keys} : Connect(key)
    \/ \E w \in DOMAIN hs.handlers, sent \in BOOLEAN : SendInitialState(w, sent)
    \/ \E w \in DOMAIN hs.handlers : StartOnConnect(w)
    \/ \E w \in DOMAIN hs.handlers : Ready(w)
    \/ \E w \in DOMAIN hs.handlers : StartOnReady(w)
    \/ \E key \in Keys : ApiReady(key)
    \/ \E w \in DOMAIN hs.handlers : MoveBegin(w)
    \/ \E w \in DOMAIN hs.handlers, q \in LoopMoves : MoveEnd(w, q)
    \/ \E w \in DOMAIN hs.handlers : Disconnect(w)
    \/ CleanupStaleGames
    \/ \E t \in DOMAIN hs.tasks : LoopBegin(t)
    \/ \E t \in DOMAIN hs.tasks, bot_move \in {None} \cup {Some(q) : q \in BotMoves} :
          LoopTick(t, bot_move)
    \/ \E t \in DOMAIN hs.tasks, w \in DOMAIN hs.handlers : LoopSend(t, w)
    \/ \E t \in DOMAIN hs.tasks : LoopAfterGame(t)

SpecLoop == LoopInit /\ [][LoopNext]_vars

\* C10: at most one _run_game_loop task of the game is alive at any time, whatever the
\* interleaving of connections, ready messages, disconnects and loop exits, each exit
\* deleting the lock of the game.
C10_OneLoopPerGame ==
    Cardinality({t \in DOMAIN hs.tasks : ~done(hs, t)}) <= 1

\* a loop task is alive after an earlier one ended and deleted the lock, a new lock was
\* made, and a start request found the live task and started none
C10_Witness ==
    /\ \E t \in DOMAIN hs.tasks : ~done(hs, t)
    /\ \E t \in DOMAIN hs.tasks : done(hs, t)
    /\ hs.locks_made >= 2
    /\ hs.declined >= 1

\* C11: for one game no execution of GameService.tick (the bot's apply_move and
\* GameEngine.tick) or of make_move (validate_move and apply_move) begins while another
\* one is in progress: at most one coroutine is inside such a call.
C11_EngineCallsExclusive ==
    Cardinality(hs.in_engine) <= 1

\* a loop is inside service.tick while the websocket of a player is open
C11_Witness ==
    /\ \E t \in DOMAIN hs.tasks : hs.in_engine = {<<"loop", t>>}
    /\ \E w \in DOMAIN hs.handlers : hs.handlers[w].pc = "open" /\ hs.handlers[w].player # None
    /\ state.current_tick > 0

\* C12: the ticks of the state messages sent to one connection, the initial state and then
\* the broadcasts of the loops, never decrease.
C12_TicksMonotonic ==
    [][\A w \in DOMAIN hs.handlers : hs'.handlers[w].seen >= hs.handlers[w].seen]_vars

\* a connection of the new game got the initial state and then the broadcast of every tick
C12_Witness ==
    /\ hs.limit = LoopTicks
    /\ \E w \in DOMAIN hs.handlers : hs.handlers[w].pc = "open" /\ hs.handlers[w].seen = hs.limit
    /\ \E w \in DOMAIN hs.handlers : hs.handlers[w].seen = 0

\* the state message of the tick a move starts at lists the move
listed(msg, move) ==
    \E k \in DOMAIN msg.active_moves :
        /\ msg.active_moves[k].piece_id = move.piece_id
        /\ msg.active_moves[k].start_tick = move.start_tick

\* C13 as claimed: a move make_move accepted at tick N has start_tick N+1 and is among the
\* active moves of the state message of tick N+1.
C13_AcceptedMoveInSnapshot ==
    hs.accepted # None =>
        /\ hs.accepted[1].start_tick = hs.accepted[1].at + 1
        /\ (hs.snap # None /\ hs.snap[1].tick = hs.accepted[1].start_tick)
              => listed(hs.snap[1], hs.accepted[1])

\* C13: a move make_move accepted at tick N has start_tick N+1 and is among the active
\* moves of the state message of tick N+1, unless its piece is captured in that tick.
C13_AcceptedMoveInSnapshotUnlessCaptured ==
    hs.accepted # None =>
        /\ hs.accepted[1].start_tick = hs.accepted[1].at + 1
        /\ (hs.snap # None /\ hs.snap[1].tick = hs.accepted[1].start_tick)
              => \/ listed(hs.snap[1], hs.accepted[1])
                 \/ is_captured(state, hs.accepted[1].piece_id)

\* the loop was dormant when the move was accepted, and the first state message after it
\* lists the move
C13_Witness ==
    /\ hs.accepted # None /\ hs.snap # None
    /\ hs.snap[1].tick = hs.accepted[1].start_tick
    /\ listed(hs.snap[1], hs.accepted[1])
    /\ hs.accepted[1].at > 0

\* the piece of the accepted move was captured in the tick the move started at
C13_WitnessCaptured ==
    /\ hs.accepted # None /\ hs.snap # None
    /\ hs.snap[1].tick = hs.accepted[1].start_tick
    /\ is_captured(state, hs.accepted[1].piece_id)

\* C14: a loop that comes to the head of an iteration when the game is finished, or is gone
\* from the registry, or has no connection left, ends there without a tick; and the loop
\* whose tick finished the game goes on to its end only.
C14_LoopStops ==
    [][\A t \in DOMAIN hs.tasks :
          /\ (/\ hs.tasks[t].pc \in {"pending", "sleeping"}
              /\ hs'.tasks[t].pc # hs.tasks[t].pc
              /\ (hs.removed \/ state.status = "finished" \/ hs.connections = {}))
                => (hs'.tasks[t].pc = "done" /\ state' = state)
          /\ (state.status = "finished" /\ hs'.tasks[t].pc # hs.tasks[t].pc)
                => hs'.tasks[t].pc \in {"game_over", "saving", "notifying", "done"}]_vars

\* the loop of a playing game has ended because no connection remained
C14_Witness ==
    /\ state.status = "playing"
    /\ state.current_tick = LoopTicks - 1
    /\ ~hs.removed
    /\ hs.connections = {}
    /\ \A t \in DOMAIN hs.tasks : done(hs, t)
    /\ hs.tasks # <<>>

\* C15 as claimed, in the form a finite run refutes: a playing game with an open
\* connection has a live loop task, once no handler is on its way to
\* _start_game_loop_if_needed.
C15_ConnectedGameIsTicked ==
    (/\ state.status = "playing"
     /\ ~hs.removed
     /\ \E w \in hs.connections : hs.handlers[w].pc = "open"
     /\ \A w \in DOMAIN hs.handlers : hs.handlers[w].pc \notin {"connected", "sent", "started"})
        => \E t \in DOMAIN hs.tasks : ~done(hs, t)

\* what the loop does from the tick that finishes the game on
GameOverSteps == <<"state", "game_over", "save_replay", "notify_lobby", "exit">>

\* C16: from the tick that finishes the game on, the loop broadcasts the state message of
\* that tick, then one game_over message, then saves the replay, then notifies the lobby,
\* then ends; no step is taken twice, and all are taken once no loop is left.
C16_GameOverOnce ==
    /\ Len(hs.log) <= Len(GameOverSteps)
    /\ hs.log = SubSeq(GameOverSteps, 1, Len(hs.log))
    /\ (state.status = "finished" /\ \A t \in DOMAIN hs.tasks : done(hs, t))
          => hs.log = GameOverSteps

\* the loop of a finished game has taken all its steps while a connection was open
C16_Witness ==
    /\ state.status = "finished"
    /\ hs.log = GameOverSteps
    /\ hs.connections # {}

\* the change of the state is one that an intent of this player makes: moves of the
\* player's pieces are added, the player (and the bots) become ready
acts_for(p) ==
    /\ [state' EXCEPT !.active_moves = state.active_moves, !.replay_moves = state.replay_moves,
                      !.last_move_tick = state.last_move_tick,
                      !.ready_players = state.ready_players, !.status = state.status] = state
    /\ Len(state'.active_moves) >= Len(state.active_moves)
    /\ \A k \in DOMAIN state'.active_moves :
          IF k <= Len(state.active_moves) THEN state'.active_moves[k] = state.active_moves[k]
          ELSE state.board.pieces[get_piece_by_id(state.board,
                                                  state'.active_moves[k].piece_id)].player = p
    /\ state'.ready_players \ state.ready_players
          \subseteq {p} \cup {b \in DOMAIN state.players : is_bot(state.players[b])}

\* C17: a step that changes the game without a tick is a move or ready intent that came
\* with the key of a player of the game, and it acts for that player only; an intent of a
\* spectator or with another key changes nothing.
C17_IntentsNeedKey ==
    [][(state' # state /\ state'.current_tick = state.current_tick) =>
          /\ last'.op \in {"move", "ready"}
          /\ last'.key # None
          /\ \E p \in DOMAIN player_keys : player_keys[p] = last'.key[1] /\ acts_for(p)]_vars

\* a player's move was accepted while a spectator is connected
C17_Witness ==
    /\ last.op = "move" /\ last.key = Some("KEY1")
    /\ hs.accepted # None /\ hs.accepted[1].at = state.current_tick
    /\ \E w \in DOMAIN hs.handlers : hs.handlers[w].pc = "open" /\ hs.handlers[w].player = None

\* a spectator's move message was answered, and the game is as it was made
C17_WitnessSpectator ==
    /\ last.op = "move" /\ last.key = None
    /\ state.status = "playing"
    /\ state.active_moves = <<>>

\* ------------------------------------------------------------------------
\* lobby/manager.py and ws/lobby_handler.py: the lobbies of one LobbyManager
\* (the manager of get_lobby_manager(), which has no session factory)
\* ------------------------------------------------------------------------
\* lobbies created
MaxLobbies == 2
\* player keys generated
MaxKeys == 3
\* games started from one lobby
MaxGames == 1
\* websockets of players that close
MaxDisconnects == 1

\* the guest ids of the requests (api/lobbies.py: player_id = "guest:" + guest_id)
PlayerIds == {"guest:a", "guest:b"}

\* the settings of the lobbies created: LobbySettings(player_count, is_ranked)
Settings == { [player_count |-> 2, is_ranked |-> FALSE] }

\* the preferred slots of join requests
PreferredSlots == {None, Some(2)}

\* "del d[k]" and "d[k] = v" of a dict
del(d, k) == [x \in DOMAIN d \ {k} |-> d[x]]
put(d, k, v) == [x \in DOMAIN d \cup {k} |-> IF x = k THEN v ELSE d[x]]

\* LobbyManager.__init__; keys_made counts the player keys generated, each a new one
\* (_generate_player_key draws it from secrets.token_urlsafe), disconnects the websockets
\* of players that closed
LobbyManager ==
    [_lobbies |-> <<>>, _player_keys |-> <<>>, _key_to_slot |-> <<>>,
     _player_to_lobby |-> <<>>, _game_to_lobby |-> <<>>, _next_lobby_id |-> 1,
     keys_made |-> 0, disconnects |-> 0]

\* LobbyPlayer; player_id is the identity the player was made for (the request's
\* player_id, which the dataclass does not keep), disconnected_at is None, or Some(0)
\* within the grace window, or Some(1) past it
LobbyPlayer(slot, is_ai, player_id) ==
    [slot |-> slot, is_ai |-> is_ai, is_ready |-> is_ai, is_connected |-> TRUE,
     disconnected_at |-> None, player_id |-> player_id]

\* Lobby(id, code, host_slot=1, settings) with its players
Lobby(id, code, settings, players) ==
    [id |-> id, code |-> code, host_slot |-> 1, settings |-> settings, players |-> players,
     status |-> "waiting", current_game_id |-> None, games_played |-> 0]

\* Lobby.is_full
is_full(lobby) == Cardinality(DOMAIN lobby.players) >= lobby.settings.player_count

\* Lobby.get_next_slot: the lowest free slot, or None
get_next_slot(lobby) ==
    LET free == (1..lobby.settings.player_count) \ DOMAIN lobby.players
    IN  IF free = {} THEN None ELSE Some(CHOOSE s \in free : \A r \in free : s <= r)

\* Lobby.human_players, as slots
human_players(lobby) == {s \in DOMAIN lobby.players : ~lobby.players[s].is_ai}

\* Lobby.all_ready
all_ready(lobby) == \A s \in DOMAIN lobby.players : lobby.players[s].is_ready

\* LobbyManager.validate_player_key and the checks that open the methods: Some(slot), or None
key_slot(m, code, player_key) ==
    IF player_key \in DOMAIN m._key_to_slot /\ m._key_to_slot[player_key][1] = code
    THEN Some(m._key_to_slot[player_key][2])
    ELSE None

\* LobbyManager._delete_lobby_internal
_delete_lobby_internal(m, code) ==
    IF code \notin DOMAIN m._lobbies THEN m
    ELSE [m EXCEPT
            !._key_to_slot =
                IF code \in DOMAIN m._player_keys
                THEN [k \in DOMAIN @ \ {m._player_keys[code][s] : s \in DOMAIN m._player_keys[code]}
                         |-> @[k]]
                ELSE @,
            !._player_keys = del(@, code),
            !._player_to_lobby = [p \in {q \in DOMAIN @ : @[q][1] # code} |-> @[p]],
            !._lobbies = del(@, code)]

\* the removal of the player, the key and the player's track in _leave_lobby_internal
remove_player(m, code, slot, player_id) ==
    [m EXCEPT
        !._lobbies[code].players = del(@, slot),
        !._key_to_slot = IF code \in DOMAIN m._player_keys /\ slot \in DOMAIN m._player_keys[code]
                         THEN del(@, m._player_keys[code][slot]) ELSE @,
        !._player_keys = IF code \in DOMAIN m._player_keys
                         THEN [@ EXCEPT ![code] = del(@, slot)] ELSE @,
        !._player_to_lobby = IF player_id = None THEN @ ELSE del(@, player_id[1])]

\* _leave_lobby_internal that removes nobody
_leave_lobby_internal_kept(m, code, slot, player_id) == m

\* LobbyManager._leave_lobby_internal
_leave_lobby_internal(m, code, slot, player_id) ==
    IF code \notin DOMAIN m._lobbies THEN m
    ELSE IF slot \notin DOMAIN m._lobbies[code].players THEN m
    ELSE LET left == remove_player(m, code, slot, player_id)
             humans == human_players(left._lobbies[code])
         IN  IF humans = {} /\ m._lobbies[code].status # "in_game"
             THEN _delete_lobby_internal(left, code)
             ELSE IF m._lobbies[code].host_slot = slot /\ humans # {}
             THEN [left EXCEPT !._lobbies[code].host_slot =
                                  CHOOSE s \in humans : \A r \in humans : s <= r]
             ELSE left

\* the player lock of create_lobby and join_lobby: the player leaves the lobby it is
\* tracked in
leave_tracked(m, player_id) ==
    IF player_id # None /\ player_id[1] \in DOMAIN m._player_to_lobby
    THEN _leave_lobby_internal(m, m._player_to_lobby[player_id[1]][1],
                               m._player_to_lobby[player_id[1]][2], player_id)
    ELSE m

\* a player added to a slot with a new key, and tracked when the request has a player_id
add_player(m, code, slot, player_id) ==
    [m EXCEPT
        !._lobbies[code].players = put(@, slot, LobbyPlayer(slot, FALSE, player_id)),
        !._player_keys = put(@, code, put(IF code \in DOMAIN @ THEN @[code] ELSE <<>>,
                                          slot, m.keys_made + 1)),
        !._key_to_slot = put(@, m.keys_made + 1, <<code, slot>>),
        !._player_to_lobby = IF player_id = None THEN @ ELSE put(@, player_id[1], <<code, slot>>),
        !.keys_made = @ + 1]

\* LobbyManager.set_connected: the player is connected, or disconnected from now on
set_connected(m, code, slot, connected) ==
    IF code \notin DOMAIN m._lobbies THEN m
    ELSE IF slot \notin DOMAIN m._lobbies[code].players THEN m
    ELSE [m EXCEPT !._lobbies[code].players[slot].is_connected = connected,
                   !._lobbies[code].players[slot].disconnected_at =
                       IF connected THEN None ELSE Some(0)]

\* the players of cleanup_disconnected_players leave one after the other
RECURSIVE leave_all(_, _, _)
leave_all(m, code, slots) ==
    IF slots = {} THEN m
    ELSE LET slot == CHOOSE s \in slots : \A r \in slots : s <= r
         IN  leave_all(_leave_lobby_internal(m, code, slot, None), code, slots \ {slot})

\* LobbyManager.cleanup_disconnected_players: the humans of a lobby that is not in a game
\* who have been disconnected for longer than the grace window leave it
cleanup_disconnected_players(m, code) ==
    IF code \notin DOMAIN m._lobbies THEN m
    ELSE IF m._lobbies[code].status = "in_game" THEN m
    ELSE leave_all(m, code, {s \in human_players(m._lobbies[code]) :
                                /\ ~m._lobbies[code].players[s].is_connected
                                /\ m._lobbies[code].players[s].disconnected_at = Some(1)})

\* a request that added or removed a player: the method, the lobby, and for create_lobby
\* and join_lobby the player_id of the request and the <<code, slot>> the player lock
\* found the player tracked in, if any
LobbyCall(op, code, player_id, old) ==
    [op |-> op, code |-> code, player_id |-> player_id, old |-> old]

\* what a request that added or removed no player leaves in "last": the sweep before it, when
\* that removed a player (_cleanup_and_broadcast: cleaned_slots)
swept_call(m, code) ==
    IF cleanup_disconnected_players(m, code) # m
    THEN LobbyCall("cleanup_disconnected_players", code, None, None)
    ELSE NoCall

\* the <<code, slot>> the player is tracked in
tracked_in(m, player_id) ==
    IF player_id # None /\ player_id[1] \in DOMAIN m._player_to_lobby
    THEN Some(m._player_to_lobby[player_id[1]])
    ELSE None

LobbyInit ==
    /\ manager = LobbyManager
    /\ db = None
    /\ last = NoCall
    /\ state = None
    /\ session = None
    /\ hs = None

\* POST /lobbies: LobbyManager.create_lobby; the code of the lobby is one no lobby has had
create_lobby(settings, add_ai, player_id) ==
    LET m == leave_tracked(manager, player_id)
        code == m._next_lobby_id
        ais == IF add_ai THEN [s \in 2..settings.player_count |-> LobbyPlayer(s, TRUE, None)]
               ELSE <<>>
    IN  /\ manager._next_lobby_id <= MaxLobbies
        /\ manager.keys_made < MaxKeys
        /\ manager' = add_player([m EXCEPT !._lobbies = put(@, code,
                                                            Lobby(code, code, settings, ais)),
                                           !._next_lobby_id = @ + 1],
                                 code, 1, player_id)
        /\ last' = LobbyCall("create_lobby", code, player_id,
                             tracked_in(manager, player_id))
        /\ UNCHANGED <<state, session, hs, db>>

\* join_lobby after its refusals, for a player that is not in the lobby with a key
join_slot(m, code, player_id, preferred_slot) ==
    LET lobby == m._lobbies[code]
    IN  IF preferred_slot # None /\ preferred_slot[1] \notin DOMAIN lobby.players
        THEN preferred_slot
        ELSE get_next_slot(lobby)

\* POST /lobbies/{code}/join: LobbyManager.join_lobby
join_lobby(code, player_id, preferred_slot) ==
    LET lobby == manager._lobbies[code]
        tracked == player_id # None /\ player_id[1] \in DOMAIN manager._player_to_lobby
        old == manager._player_to_lobby[player_id[1]]
        m == IF tracked /\ old[1] # code THEN leave_tracked(manager, player_id) ELSE manager
        slot == join_slot(m, code, player_id, preferred_slot)
    IN  /\ manager.keys_made < MaxKeys
        /\ IF code \notin DOMAIN manager._lobbies
           THEN manager' = manager /\ last' = NoCall
           ELSE IF lobby.status = "in_game" \/ is_full(lobby)
           THEN manager' = manager /\ last' = NoCall
           ELSE IF tracked /\ old[1] = code /\ old[2] \in DOMAIN manager._player_keys[code]
           THEN /\ manager' = manager
                /\ last' = LobbyCall("join_lobby", code, player_id,
                                     tracked_in(manager, player_id))
           ELSE IF slot = None
           THEN manager' = m /\ last' = NoCall
           ELSE /\ manager' = add_player(m, code, slot[1], player_id)
                /\ last' = LobbyCall("join_lobby", code, player_id,
                                     tracked_in(manager, player_id))
        /\ UNCHANGED <<state, session, hs, db>>

\* a message other than "ping" begins with _cleanup_and_broadcast(code)
\* a "leave" message: _handle_leave, LobbyManager.leave_lobby with no player_id
leave_lobby(code, player_key) ==
    LET swept == cleanup_disconnected_players(manager, code)
        slot == key_slot(swept, code, player_key)
    IN  /\ manager' = IF code \notin DOMAIN swept._lobbies \/ slot = None THEN swept
                      ELSE _leave_lobby_internal(swept, code, slot[1], None)
        /\ last' = IF code \in DOMAIN swept._lobbies /\ slot # None
                   THEN LobbyCall("leave_lobby", code, None, None) ELSE swept_call(manager, code)
        /\ UNCHANGED <<state, session, hs, db>>

\* a "ready" message that is handled without the sweep before it
set_ready_unswept(code, player_key, ready) ==
    LET slot == key_slot(manager, code, player_key)
        lobby == manager._lobbies[code]
        ok == /\ slot # None
              /\ code \in DOMAIN manager._lobbies
              /\ slot[1] \in DOMAIN lobby.players
              /\ ~lobby.players[slot[1]].is_ai
              /\ lobby.status = "waiting"
    IN  /\ manager' = IF ok THEN [manager EXCEPT !._lobbies[code].players[slot[1]].is_ready = ready]
                      ELSE manager
        /\ last' = NoCall
        /\ UNCHANGED <<state, session, hs, db>>

\* a "ready" message: LobbyManager.set_ready
set_ready(code, player_key, ready) ==
    LET swept == cleanup_disconnected_players(manager, code)
        slot == key_slot(swept, code, player_key)
        lobby == swept._lobbies[code]
        ok == /\ slot # None
              /\ code \in DOMAIN swept._lobbies
              /\ slot[1] \in DOMAIN lobby.players
              /\ ~lobby.players[slot[1]].is_ai
              /\ lobby.status = "waiting"
    IN  /\ manager' = IF ok THEN [swept EXCEPT !._lobbies[code].players[slot[1]].is_ready = ready]
                      ELSE swept
        /\ last' = swept_call(manager, code)
        /\ UNCHANGED <<state, session, hs, db>>

\* the checks that open kick_player, add_ai, remove_ai and start_game: the key is one of
\* the lobby and its slot is the host's
is_host(m, code, host_key) ==
    /\ key_slot(m, code, host_key) # None
    /\ code \in DOMAIN m._lobbies
    /\ m._lobbies[code].host_slot = key_slot(m, code, host_key)[1]

\* a "kick" message: LobbyManager.kick_player
kick_player(code, host_key, target_slot) ==
    LET swept == cleanup_disconnected_players(manager, code)
        lobby == swept._lobbies[code]
        ok == /\ is_host(swept, code, host_key)
              /\ target_slot # lobby.host_slot
              /\ target_slot \in DOMAIN lobby.players
              /\ ~lobby.players[target_slot].is_ai
              /\ lobby.status = "waiting"
    IN  /\ manager' = IF ok THEN remove_player(swept, code, target_slot, None) ELSE swept
        /\ last' = IF ok THEN LobbyCall("kick_player", code, None, None) ELSE swept_call(manager, code)
        /\ UNCHANGED <<state, session, hs, db>>

\* an "add_ai" message: LobbyManager.add_ai
add_ai(code, host_key) ==
    LET swept == cleanup_disconnected_players(manager, code)
        lobby == swept._lobbies[code]
        ok == /\ is_host(swept, code, host_key)
              /\ ~is_full(lobby)
              /\ lobby.status = "waiting"
              /\ ~lobby.settings.is_ranked
              /\ get_next_slot(lobby) # None
        ai_slot == get_next_slot(lobby)[1]
    IN  /\ manager' = IF ok
                      THEN [swept EXCEPT !._lobbies[code].players =
                                              put(@, ai_slot, LobbyPlayer(ai_slot, TRUE, None))]
                      ELSE swept
        /\ last' = IF ok THEN LobbyCall("add_ai", code, None, None) ELSE swept_call(manager, code)
        /\ UNCHANGED <<state, session, hs, db>>

\* remove_ai with no check of the lobby's status
remove_ai_in_any_status(code, host_key, target_slot) ==
    LET swept == cleanup_disconnected_players(manager, code)
        lobby == swept._lobbies[code]
        ok == /\ is_host(swept, code, host_key)
              /\ target_slot \in DOMAIN lobby.players
              /\ lobby.players[target_slot].is_ai
    IN  /\ manager' = IF ok THEN [swept EXCEPT !._lobbies[code].players = del(@, target_slot)]
                      ELSE swept
        /\ last' = IF ok THEN LobbyCall("remove_ai_in_any_status", code, None, None) ELSE swept_call(manager, code)
        /\ UNCHANGED <<state, session, hs, db>>

\* a "remove_ai" message: LobbyManager.remove_ai
remove_ai(code, host_key, target_slot) ==
    LET swept == cleanup_disconnected_players(manager, code)
        lobby == swept._lobbies[code]
        ok == /\ is_host(swept, code, host_key)
              /\ target_slot \in DOMAIN lobby.players
              /\ lobby.players[target_slot].is_ai
              /\ lobby.status = "waiting"
    IN  /\ manager' = IF ok THEN [swept EXCEPT !._lobbies[code].players = del(@, target_slot)]
                      ELSE swept
        /\ last' = IF ok THEN LobbyCall("remove_ai", code, None, None) ELSE swept_call(manager, code)
        /\ UNCHANGED <<state, session, hs, db>>

\* the ids of the n-th game of a lobby: the one LobbyManager.start_game generates and the
\* one GameService.create_lobby_game generates
game_ids(lobby) == [manager |-> <<"manager", lobby.id, lobby.games_played + 1>>,
                    service |-> <<"service", lobby.id, lobby.games_played + 1>>]

\* the host of a lobby made ready: "Auto-ready host if needed" of LobbyManager.start_game
host_readied(lobby) ==
    IF lobby.host_slot \in DOMAIN lobby.players /\ ~lobby.players[lobby.host_slot].is_ai
    THEN [lobby EXCEPT !.players[lobby.host_slot].is_ready = TRUE]
    ELSE lobby

\* the code of the LobbyError LobbyManager.start_game returns, None when it returns a game
\* id; the lobby is looked at for "not_ready" after the host was made ready
start_game_error(m, code, host_key) ==
    IF key_slot(m, code, host_key) = None THEN Some("invalid_key")
    ELSE IF code \notin DOMAIN m._lobbies THEN Some("not_found")
    ELSE IF m._lobbies[code].host_slot # key_slot(m, code, host_key)[1] THEN Some("not_host")
    ELSE IF m._lobbies[code].status # "waiting" THEN Some("invalid_state")
    ELSE IF ~is_full(host_readied(m._lobbies[code])) THEN Some("not_ready")
    ELSE IF ~all_ready(host_readied(m._lobbies[code])) THEN Some("not_ready")
    ELSE None

\* LobbyManager.start_game that does not look whether the lobby is full
manager_start_game_not_full(m, code, host_key) ==
    LET err == start_game_error(m, code, host_key)
        lobby == m._lobbies[code]
    IN  IF err \in {Some("invalid_key"), Some("not_found"), Some("not_host"),
                    Some("invalid_state")}
        THEN [manager |-> m, game_id |-> None]
        ELSE IF ~all_ready(host_readied(lobby))
        THEN [manager |-> [m EXCEPT !._lobbies[code] = host_readied(lobby)], game_id |-> None]
        ELSE [manager |-> [m EXCEPT
                             !._lobbies[code] =
                                 [host_readied(lobby) EXCEPT
                                     !.status = "in_game", !.games_played = @ + 1,
                                     !.current_game_id = Some(game_ids(lobby).manager)],
                             !._game_to_lobby = put(@, game_ids(lobby).manager, code)],
              game_id |-> Some(game_ids(lobby).manager)]

\* LobbyManager.start_game: the manager after the call and the game id it returns, None
\* when it returns a LobbyError; the host is made ready before the lobby is looked at for
\* "not_ready", and stays ready when that is returned
manager_start_game(m, code, host_key) ==
    LET err == start_game_error(m, code, host_key)
        lobby == m._lobbies[code]
    IN  IF err \in {Some("invalid_key"), Some("not_found"), Some("not_host"),
                    Some("invalid_state")}
        THEN [manager |-> m, game_id |-> None]
        ELSE IF err # None
        THEN [manager |-> [m EXCEPT !._lobbies[code] = host_readied(lobby)], game_id |-> None]
        ELSE [manager |-> [m EXCEPT
                             !._lobbies[code] =
                                 [host_readied(lobby) EXCEPT
                                     !.status = "in_game", !.games_played = @ + 1,
                                     !.current_game_id = Some(game_ids(lobby).manager)],
                             !._game_to_lobby = put(@, game_ids(lobby).manager, code)],
              game_id |-> Some(game_ids(lobby).manager)]

\* _create_game_from_lobby: the id of the game the service created is put in the place of
\* the manager's, and is mapped to the lobby as well; game_id is the manager's
_create_game_from_lobby(m, code, game_id) ==
    [m EXCEPT !._lobbies[code].current_game_id = Some(<<"service", game_id[2], game_id[3]>>),
              !._game_to_lobby = put(@, <<"service", game_id[2], game_id[3]>>, code)]

\* a "start_game" message: LobbyManager.start_game and, when it returned a game id,
\* _create_game_from_lobby
start_game(code, host_key) ==
    LET swept == cleanup_disconnected_players(manager, code)
        r == manager_start_game(swept, code, host_key)
    IN  /\ code \in DOMAIN swept._lobbies => swept._lobbies[code].games_played < MaxGames
        /\ manager' = IF r.game_id = None THEN r.manager
                      ELSE _create_game_from_lobby(r.manager, code, r.game_id[1])
        /\ last' = swept_call(manager, code)
        /\ UNCHANGED <<state, session, hs, db>>

\* _notify_lobby_game_ended of the game loop: find_lobby_by_game and notify_game_ended,
\* LobbyManager.end_game
end_game(game_id) ==
    LET code == manager._game_to_lobby[game_id]
        lobby == manager._lobbies[code]
    IN  /\ game_id \in DOMAIN manager._game_to_lobby
        /\ game_id[1] = "service"
        /\ manager' =
              IF code \notin DOMAIN manager._lobbies THEN manager
              ELSE [manager EXCEPT
                      !._game_to_lobby = IF lobby.current_game_id = None THEN @
                                         ELSE del(@, lobby.current_game_id[1]),
                      !._lobbies[code] =
                          [lobby EXCEPT !.status = "finished", !.current_game_id = None,
                                        !.players = [s \in DOMAIN @ |->
                                                        IF @[s].is_ai THEN @[s]
                                                        ELSE [@[s] EXCEPT !.is_ready = FALSE]]]]
        /\ last' = NoCall
        /\ UNCHANGED <<state, session, hs, db>>

\* a "return_to_lobby" message: LobbyManager.return_to_lobby
return_to_lobby(code) ==
    LET swept == cleanup_disconnected_players(manager, code)
        ok == code \in DOMAIN swept._lobbies /\ swept._lobbies[code].status # "in_game"
    IN  /\ manager' = IF ok THEN [swept EXCEPT !._lobbies[code].status = "waiting"] ELSE swept
        /\ last' = swept_call(manager, code)
        /\ UNCHANGED <<state, session, hs, db>>

\* a websocket of the lobby opens: handle_lobby_websocket up to its connect; the player
\* of the key is connected again
handle_lobby_websocket(code, player_key) ==
    LET swept == cleanup_disconnected_players(manager, code)
        slot == key_slot(swept, code, player_key)
        ok == slot # None /\ code \in DOMAIN swept._lobbies
    IN  /\ manager' = IF ok /\ slot[1] \in DOMAIN swept._lobbies[code].players
                         /\ ~swept._lobbies[code].players[slot[1]].is_connected
                      THEN set_connected(swept, code, slot[1], TRUE)
                      ELSE swept
        /\ last' = swept_call(manager, code)
        /\ UNCHANGED <<state, session, hs, db>>

\* the websocket of a slot closes: _handle_disconnect
_handle_disconnect(code, slot) ==
    LET lobby == manager._lobbies[code]
        ok == /\ code \in DOMAIN manager._lobbies
              /\ lobby.status # "in_game"
              /\ slot \in human_players(lobby)
    IN  /\ code \in DOMAIN manager._lobbies
        /\ slot \in human_players(lobby)
        /\ manager.disconnects < MaxDisconnects
        /\ manager' = [IF ok THEN set_connected(manager, code, slot, FALSE) ELSE manager
                         EXCEPT !.disconnects = @ + 1]
        /\ last' = NoCall
        /\ UNCHANGED <<state, session, hs, db>>

\* the grace window of a disconnected player passes
GracePasses(code, slot) ==
    /\ code \in DOMAIN manager._lobbies
    /\ slot \in DOMAIN manager._lobbies[code].players
    /\ manager._lobbies[code].players[slot].disconnected_at = Some(0)
    /\ manager' = [manager EXCEPT !._lobbies[code].players[slot].disconnected_at = Some(1)]
    /\ last' = NoCall
    /\ UNCHANGED <<state, session, hs, db>>

\* the codes, keys and slots of the requests (a lobby is created with a guest id, a join
\* comes with one or without): 0 is no key of the lobby, as are the key
\* of a player that has left and the key of another lobby
Codes == 1..MaxLobbies
LobbyKeys(code) ==
    {0} \cup {k \in DOMAIN manager._key_to_slot : manager._key_to_slot[k][1] = code}
Slots == 1..2

LobbyNext ==
    \/ \E settings \in Settings, ai \in BOOLEAN,
          player_id \in {Some(p) : p \in PlayerIds} :
             create_lobby(settings, ai, player_id)
    \/ \E code \in Codes, player_id \in {None} \cup {Some(p) : p \in PlayerIds},
          preferred_slot \in PreferredSlots : join_lobby(code, player_id, preferred_slot)
    \/ \E code \in Codes : \E key \in LobbyKeys(code) : leave_lobby(code, key)
    \/ \E code \in Codes : \E key \in LobbyKeys(code), ready \in BOOLEAN :
          set_ready(code, key, ready)
    \/ \E code \in Codes : \E key \in LobbyKeys(code), slot \in Slots :
          kick_player(code, key, slot)
    \/ \E code \in Codes : \E key \in LobbyKeys(code) : add_ai(code, key)
    \/ \E code \in Codes : \E key \in LobbyKeys(code), slot \in Slots :
          remove_ai(code, key, slot)
    \/ \E code \in Codes : \E key \in LobbyKeys(code) : start_game(code, key)
    \/ \E game_id \in DOMAIN manager._game_to_lobby : end_game(game_id)
    \/ \E code \in Codes : return_to_lobby(code)
    \/ \E code \in Codes : \E key \in LobbyKeys(code) : handle_lobby_websocket(code, key)
    \/ \E code \in Codes, slot \in Slots : _handle_disconnect(code, slot)
    \/ \E code \in Codes, slot \in Slots : GracePasses(code, slot)

SpecLobby == LobbyInit /\ [][LobbyNext]_vars

\* the slots a player identity occupies, as <<code, slot>>
occupied(player_id) ==
    {cs \in (DOMAIN manager._lobbies) \X Slots :
        /\ cs[2] \in DOMAIN manager._lobbies[cs[1]].players
        /\ manager._lobbies[cs[1]].players[cs[2]].player_id = Some(player_id)}

\* C18: a player identity occupies a slot in at most one lobby, and after it has created or
\* joined a lobby it occupies no slot of another lobby.
C18_OneLobbyPerPlayer ==
    /\ \A p \in PlayerIds : Cardinality(occupied(p)) <= 1
    /\ (last # NoCall /\ last.player_id # None)
          => \A cs \in occupied(last.player_id[1]) : cs[1] = last.code

\* a player that was in the first lobby has joined or created the second: it is in the
\* second only, and the first is still there
C18_Witness ==
    /\ last # NoCall /\ last.code = 2 /\ last.player_id # None
    /\ last.old # None /\ last.old[1][1] = 1
    /\ Cardinality(occupied(last.player_id[1])) = 1
    /\ \A cs \in occupied(last.player_id[1]) : cs[1] = 2
    /\ 1 \in DOMAIN manager._lobbies

\* C19 as claimed: in every lobby the host slot is occupied, and not by an AI.
C19_HostIsHuman ==
    \A code \in DOMAIN manager._lobbies :
        /\ manager._lobbies[code].host_slot \in DOMAIN manager._lobbies[code].players
        /\ ~manager._lobbies[code].players[manager._lobbies[code].host_slot].is_ai

\* who is in the slots of a lobby
occupants(lobby) ==
    [s \in DOMAIN lobby.players |-> <<lobby.players[s].is_ai, lobby.players[s].player_id>>]

swept_step(code) ==
    \/ return_to_lobby(code)
    \/ \E key \in LobbyKeys(code) :
          \/ handle_lobby_websocket(code, key)
          \/ leave_lobby(code, key)
          \/ start_game(code, key)
          \/ add_ai(code, key)
          \/ \E ready \in BOOLEAN : set_ready(code, key, ready)
          \/ \E slot \in Slots : kick_player(code, key, slot) \/ remove_ai(code, key, slot)

\* the human in the slot has been disconnected for longer than the grace window
expired(lobby, s) ==
    /\ s \in human_players(lobby)
    /\ ~lobby.players[s].is_connected
    /\ lobby.players[s].disconnected_at = Some(1)

\* the human of the slot is in the lobby no more after the step: the player's key is no
\* key of the manager
removed(code, s) == manager._player_keys[code][s] \notin DOMAIN manager'._key_to_slot

C21_RefusedChangesNothing ==
    \A code \in Codes : \A key \in LobbyKeys(code) :
        LET swept == cleanup_disconnected_players(manager, code)
        IN  manager_start_game(swept, code, key).game_id = None
               => manager_start_game(swept, code, key).manager = swept

\* the other refusals of C21: a kick, add_ai, remove_ai or ready request from a caller that
\* is not the host, in a lobby that is not "waiting", a kick of the host's own slot, and a
\* ready or leave request with a key that is not one of the lobby, leave the manager as the
\* sweep before the request left it.
C21_OtherRefusals ==
    [][\A code \in Codes : \A key \in LobbyKeys(code) :
          LET swept == cleanup_disconnected_players(manager, code)
              no_key == key_slot(swept, code, key) = None
              not_host == ~is_host(swept, code, key)
              not_waiting == code \in DOMAIN swept._lobbies
                                /\ swept._lobbies[code].status # "waiting"
          IN  /\ (add_ai(code, key) /\ (not_host \/ not_waiting)) => manager' = swept
              /\ \A slot \in Slots :
                    /\ (kick_player(code, key, slot)
                           /\ (not_host \/ not_waiting \/ slot = swept._lobbies[code].host_slot))
                          => manager' = swept
                    /\ (remove_ai(code, key, slot) /\ (not_host \/ not_waiting))
                          => manager' = swept
              /\ \A ready \in BOOLEAN :
                    (set_ready(code, key, ready) /\ (no_key \/ not_waiting)) => manager' = swept
              /\ (leave_lobby(code, key) /\ no_key) => manager' = swept]_vars

C23_StatusPreconditions ==
    [][\A code \in DOMAIN manager._lobbies :
          code \in DOMAIN manager'._lobbies =>
             /\ (/\ last'.op = "join_lobby" /\ last'.code = code
                 /\ DOMAIN manager'._lobbies[code].players
                       # DOMAIN manager._lobbies[code].players)
                   => manager._lobbies[code].status = "waiting"
             /\ (/\ manager'._lobbies[code].status = "finished"
                 /\ manager._lobbies[code].status # "finished")
                   => manager._lobbies[code].status = "in_game"
             /\ (/\ manager'._lobbies[code].status = "waiting"
                 /\ manager._lobbies[code].status # "waiting")
                   => manager._lobbies[code].status # "in_game"]_vars

\* ------------------------------------------------------------------------
\* lobbies with ranked settings and four slots: create, join, update_settings, add_ai
\* ------------------------------------------------------------------------
\* the settings of the requests: LobbySettings(player_count, is_ranked); is_public and
\* speed, which no check of the manager reads, are left out
RankedSettings == [player_count : {2, 4}, is_ranked : BOOLEAN]

\* an "update_settings" message: the handler's check of the host and
\* LobbyManager.update_settings
update_settings(code, player_key, settings) ==
    LET swept == cleanup_disconnected_players(manager, code)
        lobby == swept._lobbies[code]
        ok == /\ is_host(swept, code, player_key)
              /\ lobby.status = "waiting"
              /\ settings.player_count >= Cardinality(DOMAIN lobby.players)
              /\ ~(settings.is_ranked /\ \E s \in DOMAIN lobby.players : lobby.players[s].is_ai)
    IN  /\ manager' =
              IF ~ok THEN swept
              ELSE [swept EXCEPT
                      !._lobbies[code].settings = settings,
                      !._lobbies[code].players =
                          IF settings = lobby.settings THEN @
                          ELSE [s \in DOMAIN @ |-> IF @[s].is_ai THEN @[s]
                                                   ELSE [@[s] EXCEPT !.is_ready = FALSE]]]
        /\ last' = swept_call(manager, code)
        /\ UNCHANGED <<state, session, hs, db>>

RankedNext ==
    \/ \E settings \in RankedSettings, ai \in BOOLEAN, player_id \in {Some(p) : p \in PlayerIds} :
          create_lobby(settings, ai, player_id)
    \/ \E code \in Codes, player_id \in {None} \cup {Some(p) : p \in PlayerIds} :
          join_lobby(code, player_id, None)
    \/ \E code \in Codes : \E key \in LobbyKeys(code), settings \in RankedSettings :
          update_settings(code, key, settings)
    \/ \E code \in Codes : \E key \in LobbyKeys(code) : add_ai(code, key)
    \/ \E code \in Codes : \E key \in LobbyKeys(code), slot \in 1..4 :
          remove_ai(code, key, slot)

SpecRanked == LobbyInit /\ [][RankedNext]_vars

\* C24 as claimed: no slot of a lobby whose settings are ranked holds an AI.
C24_RankedHasNoAi ==
    \A code \in DOMAIN manager._lobbies :
        manager._lobbies[code].settings.is_ranked
           => \A s \in DOMAIN manager._lobbies[code].players :
                 ~manager._lobbies[code].players[s].is_ai

\* update_settings and add_ai keep C24: a step of either never makes a lobby one that is
\* ranked and holds an AI
C24_KeptOnceCreated ==
    [][\A code \in DOMAIN manager._lobbies :
          (/\ code \in DOMAIN manager'._lobbies
           /\ manager._lobbies[code].settings.is_ranked
                 => \A s \in DOMAIN manager._lobbies[code].players :
                       ~manager._lobbies[code].players[s].is_ai)
            => (manager'._lobbies[code].settings.is_ranked
                   => \A s \in DOMAIN manager'._lobbies[code].players :
                         ~manager'._lobbies[code].players[s].is_ai)]_vars

\* ------------------------------------------------------------------------
\* The terminal check of tick()
\* ------------------------------------------------------------------------

\* GameEngine.check_winner, its first loop: the players who still have their king
players_with_king(st) == {p \in DOMAIN st.players : get_king(st.board, p) # 0}

\* GameEngine.check_winner, its draw conditions: the minimum game length has passed
\* and there was no move and no capture for the configured periods
inactivity_draw(st) ==
    /\ st.current_tick >= min_draw_ticks(st.speed)
    /\ st.current_tick - st.last_move_tick >= draw_no_move_ticks(st.speed)
    /\ st.current_tick - st.last_capture_tick >= draw_no_capture_ticks(st.speed)

\* a call of tick() on a game that is PLAYING
TickOfPlaying == last'.op = "tick" /\ state.status = "playing"

\* C26: at the tick where exactly one player still has an uncaptured king the game
\* becomes FINISHED with that player as winner and win_reason KingCaptured; at the tick
\* where no player has one it becomes FINISHED with winner 0 and win_reason Draw; with
\* two or more kings left and no inactivity draw it stays PLAYING.
C26_TerminalCheck ==
    [][TickOfPlaying =>
        LET K == players_with_king(state')
        IN  /\ Cardinality(K) = 1 =>
                /\ state'.status = "finished"
                /\ \E p \in K : state'.winner = Some(p)
                /\ state'.win_reason = "king_captured"
            /\ Cardinality(K) = 0 =>
                /\ state'.status = "finished"
                /\ state'.winner = Some(0)
                /\ state'.win_reason = "draw"
            /\ Cardinality(K) >= 2 /\ ~inactivity_draw(state') => state'.status = "playing"]_vars

\* C26 without the win_reason: tick() sets the status and the winner as stated and
\* leaves GameState.win_reason as it was
C26_WinnerByKings ==
    [][TickOfPlaying =>
        LET K == players_with_king(state')
        IN  /\ Cardinality(K) = 1 =>
                state'.status = "finished" /\ \E p \in K : state'.winner = Some(p)
            /\ Cardinality(K) = 0 => state'.status = "finished" /\ state'.winner = Some(0)
            /\ Cardinality(K) >= 2 /\ ~inactivity_draw(state') => state'.status = "playing"
            /\ state'.win_reason = state.win_reason]_vars

\* ------------------------------------------------------------------------
\* Long games: the draw by inactivity
\* ------------------------------------------------------------------------
\* the last tick of a long game, and the ticks at which its players send moves
MaxDrawTick == 3300
EarlyMoveTick == 1500
LateMoveTick == 1900

InactivityGames ==
    { [game_id |-> "ENDGAME", players |-> PLAYERS_HUMANS,
       board |-> BoardOf(<<CreatePiece("K", 1, 7, 4), CreatePiece("K", 2, 0, 4),
                           CreatePiece("R", 1, 4, 0), CreatePiece("P", 2, 4, 3)>>)],
      [game_id |-> "DOUBLE", players |-> PLAYERS_VS_BOT,
       board |-> BoardOf(<<CreatePiece("K", 1, 7, 4), CreatePiece("K", 2, 0, 4),
                           CreatePiece("R", 1, 0, 0), CreatePiece("R", 2, 7, 0)>>)],
      [game_id |-> "SOLO", players |-> (1 :> "u:1"),
       board |-> BoardOf(<<CreatePiece("K", 1, 7, 4), CreatePiece("K", 2, 0, 4)>>)] }

InactivityRequests(game_id) ==
    IF game_id = "ENDGAME"
    THEN { Req(1, "R", 1, 4, 0, 4, 3), Req(2, "K", 2, 0, 4, 0, 3) }
    ELSE { Req(1, "R", 1, 0, 0, 0, 4), Req(2, "R", 2, 7, 0, 7, 4) }

InactivityInit ==
    /\ \E g \in InactivityGames, speed \in Speeds :
          state = create_game_from_board(speed, g.players, g.board, g.game_id)
    /\ last = NoCall
    /\ session = None
    /\ hs = None
    /\ manager = None
    /\ db = None

\* a client's move message in a long game: GameEngine.validate_move, then
\* GameEngine.apply_move of its result
InactivityMove(q) ==
    LET move == validate_move(state, q.player, q.piece_id, q.to_row, q.to_col)
        r == apply_move(state, move[1])
    IN  /\ state.current_tick \in {0, EarlyMoveTick, LateMoveTick}
        /\ state.status = "playing"
        /\ IF move = None
           THEN /\ state' = state
                /\ last' = [op |-> "validate_move", events |-> <<>>, captures |-> <<>>]
           ELSE /\ state' = r.state
                /\ last' = [op |-> "apply_move", events |-> r.events, captures |-> <<>>]
        /\ UNCHANGED <<session, hs, manager, db>>

\* the game loop's step in a long game: GameEngine.tick
InactivityTick ==
    LET r == tick(state)
    IN  /\ state.current_tick < MaxDrawTick
        /\ state' = r.state
        /\ last' = [op |-> "tick", events |-> r.events, captures |-> r.captures]
        /\ UNCHANGED <<session, hs, manager, db>>

InactivityNext ==
    \/ \E player \in 1..3 : SetPlayerReady(player)
    \/ \E q \in InactivityRequests(state.game_id) : InactivityMove(q)
    \/ InactivityTick

SpecInactivity == InactivityInit /\ [][InactivityNext]_vars

\* the game loop keeps ticking: weak fairness of the tick of a PLAYING game, with the
\* condition under which that tick can be taken written out
TickPending == state.status = "playing" /\ state.current_tick < MaxDrawTick
FairInactivity == SpecInactivity /\ ([]<>~TickPending \/ []<><<TickOfPlaying>>_vars)

\* C27: with at least two kings uncaptured, the game is declared a draw (winner 0) at
\* exactly the first tick at which current_tick >= min_draw_ticks, current_tick -
\* last_move_tick >= draw_no_move_ticks and current_tick - last_capture_tick >=
\* draw_no_capture_ticks all hold: no PLAYING game is seen in which they hold, and a
\* tick that leaves two kings ends the game exactly when they hold after it;
\* consequently a PLAYING game that keeps being ticked and in which moves stop being
\* applied eventually becomes FINISHED.
C27_DrawAtFirstTick ==
    /\ [][/\ state'.status = "playing" => ~inactivity_draw(state')
          /\ TickOfPlaying /\ Cardinality(players_with_king(state')) >= 2 =>
                /\ state'.status = "finished" <=> inactivity_draw(state')
                /\ state'.status = "finished" =>
                    /\ state'.winner = Some(0)
                    /\ last'.events # <<>>
                    /\ last'.events[Len(last'.events)].type = "draw"
                    /\ last'.events[Len(last'.events)].tick = state'.current_tick]_vars
    /\ (state.status = "playing" ~> state.status = "finished")

\* a game was declared a draw later than min_draw_ticks, when the period since its
\* last capture had passed
C27_Witness ==
    /\ last.op = "tick"
    /\ state.status = "finished"
    /\ state.winner = Some(0)
    /\ Cardinality(players_with_king(state)) >= 2
    /\ state.last_capture_tick > 0
    /\ state.current_tick = state.last_capture_tick + draw_no_capture_ticks(state.speed)
    /\ state.current_tick > min_draw_ticks(state.speed)

\* ------------------------------------------------------------------------
\* The refusals of validate_move
\* ------------------------------------------------------------------------
\* the requests tried on a game: those of its players, and one for a piece that is
\* not on the board
MoveRequests(game_id) == Requests(game_id) \cup {Req(1, "B", 1, 3, 3, 2, 2)}

\* validate_move's early returns for the request q: the game is not PLAYING, or the
\* piece does not exist, is another player's, is captured, is moving or is on cooldown
refused(st, q) ==
    LET i == get_piece_by_id(st.board, q.piece_id)
        piece == st.board.pieces[i]
    IN  \/ st.status # "playing"
        \/ i = 0
        \/ piece.player # q.player
        \/ piece.captured
        \/ is_piece_moving(q.piece_id, st.active_moves)
        \/ is_piece_on_cooldown(q.piece_id, st.cooldowns, st.current_tick)

\* C28: validate_move returns no move whenever the game is not PLAYING, the piece does
\* not exist, is owned by another player, is captured, already has an active move, or
\* is on cooldown, and it never modifies the game state (a request it refuses leaves
\* the game as it was).
C28_ValidateMoveRefuses ==
    /\ [](\A q \in MoveRequests(state.game_id) :
            refused(state, q) =>
                validate_move(state, q.player, q.piece_id, q.to_row, q.to_col) = None)
    /\ [][last'.op = "validate_move" => state' = state]_vars

\* a request was refused in a PLAYING game at a tick at which a piece the players ask
\* to move is on cooldown, another one is captured and a third is not theirs
C28_Witness ==
    /\ last.op = "validate_move"
    /\ state.status = "playing"
    /\ \E q \in MoveRequests(state.game_id) :
          is_piece_on_cooldown(q.piece_id, state.cooldowns, state.current_tick)
    /\ \E q \in MoveRequests(state.game_id) :
          LET i == get_piece_by_id(state.board, q.piece_id)
          IN  i # 0 /\ state.board.pieces[i].captured
    /\ \E q \in MoveRequests(state.game_id) :
          LET i == get_piece_by_id(state.board, q.piece_id)
          IN  i # 0 /\ state.board.pieces[i].player # q.player

\* ------------------------------------------------------------------------
\* The start of a game
\* ------------------------------------------------------------------------
\* GameEngine.set_player_ready: every player is ready, the bots being always ready
slots_ready(st) ==
    \A p \in DOMAIN st.players : p \in st.ready_players \/ is_bot(st.players[p])

\* C29: a game moves from WAITING to PLAYING exactly at the set_player_ready call after
\* which every player slot is ready (bot slots count as ready) and there are at least
\* two slots, with current_tick = 0 and one GameStarted event; set_player_ready on a
\* game that is not WAITING, or for a slot that is not in the game, changes nothing.
C29_GameStarts ==
    /\ [](\A player \in 1..3 :
            state.status # "waiting" \/ player \notin DOMAIN state.players =>
                set_player_ready(state, player) = [state |-> state, events |-> <<>>])
    /\ [][/\ state.status = "waiting" /\ state'.status # "waiting" =>
                /\ last'.op = "set_player_ready"
                /\ state'.status = "playing"
          /\ last'.op = "set_player_ready" /\ state.status = "waiting" =>
                /\ state'.status = "playing" <=>
                        slots_ready(state') /\ Cardinality(DOMAIN state.players) >= 2
                /\ state'.status = "playing" =>
                        /\ state'.current_tick = 0
                        /\ Len(last'.events) = 1
                        /\ last'.events[1].type = "game_started"
                /\ state'.status = "waiting" => last'.events = <<>>
          /\ last'.op = "set_player_ready" /\ state.status # "waiting" =>
                state' = state /\ last'.events = <<>>]_vars

\* a game against a bot has started at the call that made its human player ready
C29_Witness ==
    /\ last.op = "set_player_ready"
    /\ Len(last.events) = 1
    /\ state.status = "playing"
    /\ state.current_tick = 0
    /\ \E p \in DOMAIN state.players : is_bot(state.players[p])

\* ------------------------------------------------------------------------
\* db/repositories/replays.py: ReplayRepository over the game_replays table.
\* Each _save_replay (ws/handler.py) opens a database session of its own, calls
\* ReplayRepository.save in it and commits; the saves interleave at their awaits.
\* A session reads the committed rows and its own pending row (READ COMMITTED).
\* ------------------------------------------------------------------------
\* the calls of save the model follows
MaxSaves == 3

Savers == {"loop", "retry"}
ReplayIds == {"GAME1", "GAME2"}

\* str(k) of a player number, and int(k) of the string
str(k) == <<"1", "2", "3", "4">>[k]
int(s) == CHOOSE k \in 1..4 : str(k) = s

\* the replays saved: of a game won by the capture of a king and of a drawn game
SavedReplays ==
    { Replay("lightning", "standard", PLAYERS_HUMANS,
             <<ReplayMove(0, "Q:1:4:0", 0, 4, 1)>>, 24, Some(1), Some("king_captured"))
        @@ [version |-> 2, created_at |-> Some(24)],
      Replay("lightning", "standard", PLAYERS_VS_BOT, <<>>, 2700, Some(0), Some("draw"))
        @@ [version |-> 2, created_at |-> Some(2700)] }

\* ReplayRepository.save: the GameReplay record of a replay (moves_data, players_data
\* with string keys, created_at or now)
GameReplay(game_id, replay, now) ==
    [id |-> game_id, speed |-> replay.speed, board_type |-> replay.board_type,
     players |-> [k \in {str(p) : p \in DOMAIN replay.players} |-> replay.players[int(k)]],
     moves |-> [n \in 1..Len(replay.moves) |->
                  [tick |-> replay.moves[n].tick, piece_id |-> replay.moves[n].piece_id,
                   to_row |-> replay.moves[n].to_row, to_col |-> replay.moves[n].to_col,
                   player |-> replay.moves[n].player]],
     total_ticks |-> replay.total_ticks, winner |-> replay.winner,
     win_reason |-> replay.win_reason,
     created_at |-> IF replay.created_at # None THEN replay.created_at ELSE Some(now),
     is_public |-> TRUE]

\* ReplayRepository._record_to_replay
_record_to_replay(record) ==
    [version |-> 2, speed |-> record.speed, board_type |-> record.board_type,
     players |-> [p \in {int(k) : k \in DOMAIN record.players} |-> record.players[str(p)]],
     moves |-> [n \in 1..Len(record.moves) |->
                  ReplayMove(record.moves[n].tick, record.moves[n].piece_id,
                             record.moves[n].to_row, record.moves[n].to_col,
                             record.moves[n].player)],
     total_ticks |-> record.total_ticks, winner |-> record.winner,
     win_reason |-> record.win_reason, created_at |-> record.created_at]

\* an AsyncSession of _save_replay: where its save is, the arguments of the save,
\* the row it has flushed and not committed, and how its last save ended
SaveSession(pc, game_id, replay, pending, result) ==
    [pc |-> pc, game_id |-> game_id, replay |-> replay, pending |-> pending, result |-> result]

IdleSession == SaveSession("idle", None, None, None, None)

\* select(GameReplay).where(GameReplay.id == game_id) in the session of saver s:
\* scalar_one_or_none
select(d, s, game_id) ==
    IF s # None /\ d.sessions[s[1]].pending # None /\ d.sessions[s[1]].game_id = game_id
    THEN d.sessions[s[1]].pending
    ELSE d.game_replays[game_id]

\* ReplayRepository.get_by_id in the session of saver s (None: a session of its own)
get_by_id(d, s, game_id) ==
    LET record == select(d, s, game_id)
    IN  IF record = None THEN None ELSE Some(_record_to_replay(record[1]))

\* session.add(record); session.flush() that replaces the row of the same id
flush_replacing(d, s) ==
    LET ses == d.sessions[s]
    IN  [d EXCEPT !.sessions[s].pending = Some(GameReplay(ses.game_id, ses.replay, d.saves)),
                  !.sessions[s].pc = "commit"]

\* session.add(record); session.flush(): the INSERT, which raises IntegrityError when
\* a row has the record's primary key (db/models.py: id is the primary key); the
\* session of _save_replay is then rolled back
flush(d, s) ==
    LET ses == d.sessions[s]
    IN  IF d.game_replays[ses.game_id] # None
        THEN [d EXCEPT !.sessions[s] = [IdleSession EXCEPT !.game_id = ses.game_id,
                                            !.replay = ses.replay, !.result = "error"]]
        ELSE [d EXCEPT !.sessions[s].pending = Some(GameReplay(ses.game_id, ses.replay, d.saves)),
                       !.sessions[s].pc = "commit"]

\* session.commit(): the pending row becomes a row of the table
commit(d, s) ==
    LET ses == d.sessions[s]
    IN  [d EXCEPT !.game_replays[ses.game_id] = IF ses.pending # None THEN ses.pending ELSE @,
                  !.sessions[s] = [IdleSession EXCEPT !.game_id = ses.game_id,
                                      !.replay = ses.replay,
                                      !.result = IF ses.pending # None THEN "saved" ELSE "skipped"]]

ReplaysInit ==
    /\ db = [game_replays |-> [id \in ReplayIds |-> None],
             sessions |-> [s \in Savers |-> IdleSession], saves |-> 0]
    /\ state = None
    /\ last = NoCall
    /\ session = None
    /\ hs = None
    /\ manager = None

\* _save_replay: a session is opened and ReplayRepository.save(game_id, replay) is called
SaveBegin(s, game_id, replay) ==
    /\ db.sessions[s].pc = "idle"
    /\ db.saves < MaxSaves
    /\ db' = [db EXCEPT !.sessions[s] = SaveSession("get_by_id", game_id, replay, None, None),
                        !.saves = @ + 1]
    /\ UNCHANGED <<state, last, session, hs, manager>>

\* ReplayRepository.save: existing = await self.get_by_id(game_id); an existing replay
\* is fetched and returned, and nothing is added
SaveCheck(s) ==
    /\ db.sessions[s].pc = "get_by_id"
    /\ db' = [db EXCEPT !.sessions[s].pc =
                IF get_by_id(db, Some(s), db.sessions[s].game_id) # None THEN "commit"
                ELSE "flush"]
    /\ UNCHANGED <<state, last, session, hs, manager>>

\* ReplayRepository.save: self.session.add(record); await self.session.flush(). The
\* INSERT waits while another session holds an uncommitted row of the same id.
SaveFlush(s) ==
    /\ db.sessions[s].pc = "flush"
    /\ \A o \in Savers \ {s} :
          db.sessions[o].pending = None \/ db.sessions[o].game_id # db.sessions[s].game_id
    /\ db' = flush(db, s)
    /\ UNCHANGED <<state, last, session, hs, manager>>

\* _save_replay: await session.commit()
SaveCommit(s) ==
    /\ db.sessions[s].pc = "commit"
    /\ db' = commit(db, s)
    /\ UNCHANGED <<state, last, session, hs, manager>>

ReplaysNext ==
    \/ \E s \in Savers, game_id \in ReplayIds, replay \in SavedReplays : SaveBegin(s, game_id, replay)
    \/ \E s \in Savers : SaveCheck(s)
    \/ \E s \in Savers : SaveFlush(s)
    \/ \E s \in Savers : SaveCommit(s)

SpecReplays == ReplaysInit /\ [][ReplaysNext]_vars

\* C30: saving a replay under a game id that already has a stored replay writes
\* nothing: after save(id, r) followed by save(id, r'), get(id) returns r, also when
\* the two saves run concurrently. The replay get(id) returns is the replay of the
\* save that was committed first, and it stays what get(id) returns.
C30_FirstSaveKept ==
    [][\A game_id \in ReplayIds :
        LET before == get_by_id(db, None, game_id)
            after == get_by_id(db', None, game_id)
        IN  /\ before # None => after = before
            /\ before = None /\ after # None =>
                  \E s \in Savers :
                      /\ db.sessions[s].pc = "commit"
                      /\ db.sessions[s].game_id = game_id
                      /\ db'.sessions[s].result = "saved"
                      /\ after = Some(db.sessions[s].replay)]_vars

\* two saves of different replays under one id ran concurrently: both found no
\* replay, one was committed and the INSERT of the other was refused
C30_Witness ==
    \E game_id \in ReplayIds :
        /\ db.sessions["loop"].game_id = game_id
        /\ db.sessions["retry"].game_id = game_id
        /\ db.sessions["loop"].result = "saved"
        /\ db.sessions["retry"].result = "error"
        /\ db.sessions["retry"].replay # db.sessions["loop"].replay
        /\ get_by_id(db, None, game_id) = Some(db.sessions["loop"].replay)

\* ------------------------------------------------------------------------
\* Collisions: games in which pieces meet, on the standard and the four_player board
\* ------------------------------------------------------------------------
CollisionGames ==
    { [game_id |-> "SIDEPAWN", players |-> PLAYERS_HUMANS,
       board |-> FourPlayerBoardOf(<<CreatePiece("K", 1, 6, 11), CreatePiece("K", 2, 11, 6),
                                     CreatePiece("P", 1, 5, 10), CreatePiece("R", 2, 6, 9)>>)],
      [game_id |-> "TRIPLE", players |-> PLAYERS_HUMANS,
       board |-> BoardOf(<<CreatePiece("K", 1, 7, 4), CreatePiece("K", 2, 0, 4),
                           CreatePiece("R", 1, 4, 0), CreatePiece("Q", 1, 7, 3),
                           CreatePiece("B", 2, 4, 3)>>)],
      [game_id |-> "BLOCK", players |-> PLAYERS_HUMANS,
       board |-> BoardOf(<<CreatePiece("K", 1, 7, 4), CreatePiece("K", 2, 0, 4),
                           CreatePiece("R", 1, 4, 0), CreatePiece("P", 2, 4, 3),
                           CreatePiece("P", 1, 2, 0)>>)] }

CollisionInit ==
    /\ \E g \in CollisionGames, speed \in Speeds :
          state = create_game_from_board(speed, g.players, g.board, g.game_id)
    /\ last = NoCall
    /\ session = None
    /\ hs = None
    /\ manager = None
    /\ db = None

SpecCollisions == CollisionInit /\ [][Next]_vars

\* detect_collisions as tick() calls it on the state st: the pieces of index i and j
\* are uncaptured pieces of different players, both visible and within the capture
\* distance at the tick the call reaches, a knight being far enough through its move
meet(st, i, j) ==
    LET pieces == st.board.pieces
        T == ticks_per_square(st.speed)
        pos == piece_positions(pieces, st.active_moves, st.current_tick + 1, T)
    IN  pair_captures(pieces, st.active_moves, st.current_tick + 1, T, pos, i, j) # <<>>

\* the captures tick() saw contain a Capture of captured by capturing
captured_by(captures, capturing, captured) ==
    \E k \in 1..Len(captures) :
        captures[k].capturing_piece_id = capturing /\ captures[k].captured_piece_id = captured

\* C31: when two enemy pieces that both have active moves and can both capture come
\* within capture distance, the one whose move has the smaller start_tick captures the
\* other; if the start_ticks are equal both are captured in that tick and neither
\* Capture event names a capturing piece.
C31_EarlierMoveCaptures ==
    [][TickOfPlaying =>
        \A i, j \in 1..Len(state.board.pieces) :
            LET a == state.board.pieces[i]
                b == state.board.pieces[j]
                move_a == move_of(state.active_moves, a.id)
                move_b == move_of(state.active_moves, b.id)
                after(id) == state'.board.pieces[get_piece_by_id(state'.board, id)]
            IN  (/\ i < j
                 /\ meet(state, i, j)
                 /\ move_a # None /\ move_b # None
                 /\ _can_piece_capture(a, move_a) /\ _can_piece_capture(b, move_b)) =>
                    IF move_a[1].start_tick < move_b[1].start_tick
                    THEN captured_by(last'.captures, a.id, b.id) /\ after(b.id).captured
                    ELSE IF move_b[1].start_tick < move_a[1].start_tick
                    THEN captured_by(last'.captures, b.id, a.id) /\ after(a.id).captured
                    ELSE /\ captured_by(last'.captures, "", a.id)
                         /\ captured_by(last'.captures, "", b.id)
                         /\ ~captured_by(last'.captures, a.id, b.id)
                         /\ ~captured_by(last'.captures, b.id, a.id)
                         /\ after(a.id).captured /\ after(b.id).captured]_vars

\* two rooks whose moves started at the same tick have met: both are captured and the
\* two captures of the tick name no capturing piece
C31_Witness ==
    /\ last.op = "tick"
    /\ Len(last.captures) = 2
    /\ last.captures[1].capturing_piece_id = ""
    /\ last.captures[2].capturing_piece_id = ""
    /\ \A k \in 1..2 :
          LET i == get_piece_by_id(state.board, last.captures[k].captured_piece_id)
          IN  state.board.pieces[i].type = "R" /\ state.board.pieces[i].captured

\* the active move of a pawn is purely forward for the orientation of its owner: it keeps
\* its column where forward is along the rows (the standard board, the players of a
\* four_player board whose axis is "row") and its row where forward is along the columns
purely_forward(board, piece, move) ==
    /\ piece.type = "P"
    /\ move # None
    /\ Len(move[1].path) >= 2
    /\ LET path == move[1].path
           orient == FOUR_PLAYER_ORIENTATIONS(piece.player)
       IN  IF board.board_type = "four_player" /\ orient # None /\ orient[1].axis = "col"
           THEN path[1][1] = path[Len(path)][1]
           ELSE path[1][2] = path[Len(path)][2]

\* C32: a pawn whose active move is purely forward for its owner's orientation never
\* captures: in a collision with an enemy that can capture, the pawn is the piece
\* captured.
C32_ForwardPawnIsCaptured ==
    [][TickOfPlaying =>
        \A i, j \in 1..Len(state.board.pieces) :
            LET a == state.board.pieces[i]
                b == state.board.pieces[j]
                move_a == move_of(state.active_moves, a.id)
                move_b == move_of(state.active_moves, b.id)
            IN  (/\ i # j
                 /\ meet(state, Min(i, j), Max(i, j))
                 /\ purely_forward(state.board, a, move_a)
                 /\ ~purely_forward(state.board, b, move_b)) =>
                    /\ captured_by(last'.captures, b.id, a.id)
                    /\ ~captured_by(last'.captures, a.id, b.id)
                    /\ ~captured_by(last'.captures, "", b.id)]_vars

\* C32, for the pawns that _is_pawn_moving_straight recognises (their move keeps its
\* column): in a collision with an enemy that can capture, the pawn is the piece captured
C32_ColumnPawnIsCaptured ==
    [][TickOfPlaying =>
        \A i, j \in 1..Len(state.board.pieces) :
            LET a == state.board.pieces[i]
                b == state.board.pieces[j]
                move_a == move_of(state.active_moves, a.id)
                move_b == move_of(state.active_moves, b.id)
            IN  (/\ i # j
                 /\ meet(state, Min(i, j), Max(i, j))
                 /\ _is_pawn_moving_straight(a, move_a)
                 /\ _can_piece_capture(b, move_b)) =>
                    /\ captured_by(last'.captures, b.id, a.id)
                    /\ ~captured_by(last'.captures, a.id, b.id)
                    /\ ~captured_by(last'.captures, "", b.id)]_vars

\* C33: in any single tick each piece is the captured piece of at most one Capture
\* event, also when three or more pieces meet within the capture distance.
C33_CapturedOnce ==
    last.op = "tick" =>
        \A k, l \in 1..Len(last.events) :
            (/\ k # l
             /\ last.events[k].type = "capture"
             /\ last.events[l].type = "capture") =>
                last.events[k].data.captured_piece_id # last.events[l].data.captured_piece_id

\* the move is one of the active moves
is_active_move(active_moves, move) ==
    \E k \in 1..Len(active_moves) : active_moves[k] = move

\* tick(), step 1, has removed the move from the active moves of st: the piece of the
\* move is captured in the state after, or the move is the extra_move of a move of st
\* whose piece is (the rook's move of a castling whose king is captured)
dropped_by_capture(st, after, move) ==
    \/ after.board.pieces[get_piece_by_id(after.board, move.piece_id)].captured
    \/ \E k \in 1..Len(st.active_moves) :
          /\ st.active_moves[k].extra_move = Some(move)
          /\ after.board.pieces[get_piece_by_id(after.board,
                                               st.active_moves[k].piece_id)].captured

\* tick(), steps 2 and 3, has completed the move: its piece is at the end of the path,
\* has moved and has a cooldown that starts at the tick of after
landed(after, move) ==
    LET piece == after.board.pieces[get_piece_by_id(after.board, move.piece_id)]
    IN  /\ piece.row = end_square(move)[1]
        /\ piece.col = end_square(move)[2]
        /\ piece.moved
        /\ \E k \in 1..Len(after.cooldowns) :
              /\ after.cooldowns[k].piece_id = move.piece_id
              /\ after.cooldowns[k].start_tick = after.current_tick

\* the moves that apply_move has added in the step
accepted_at_tick ==
    last'.op = "apply_move" =>
        /\ Len(state'.active_moves) > Len(state.active_moves)
        /\ \A k \in (Len(state.active_moves) + 1)..Len(state'.active_moves) :
              state'.active_moves[k].start_tick = state.current_tick + 1

\* C34 (as stated): a move with L path segments accepted at current_tick = N remains in
\* active_moves until the tick() that brings current_tick to N + 1 + L * T and is
\* removed by that call; if its piece was not captured before, the piece is then at the
\* end of the path with moved = true and has a cooldown whose start_tick is that tick.
C34_MoveLifetime ==
    [][/\ accepted_at_tick
       /\ \A k \in 1..Len(state.active_moves) :
            LET move == state.active_moves[k]
                due == move.start_tick + num_squares(move) * T_of(state)
                piece == state.board.pieces[get_piece_by_id(state.board, move.piece_id)]
            IN  /\ state.current_tick < due
                /\ IF state'.current_tick < due
                   THEN is_active_move(state'.active_moves, move)
                   ELSE /\ ~is_active_move(state'.active_moves, move)
                        /\ ~piece.captured => landed(state', move)]_vars

\* C34 (amended): the move remains in active_moves until the tick() that brings
\* current_tick to N + 1 + L * T, unless a tick() before or that tick() itself captures
\* its piece or, for the rook's move of a castling, the king: the tick() that captures
\* removes the move and leaves the piece where it was. A move that is not removed in this
\* way is removed by the tick() that brings current_tick to N + 1 + L * T, and its piece
\* is then at the end of the path with moved = true and a cooldown that starts at that
\* tick.
C34_MoveLifetimeUnlessCaptured ==
    [][/\ accepted_at_tick
       /\ \A k \in 1..Len(state.active_moves) :
            LET move == state.active_moves[k]
                due == move.start_tick + num_squares(move) * T_of(state)
            IN  /\ state.current_tick < due
                /\ IF dropped_by_capture(state, state', move)
                   THEN /\ last'.op = "tick"
                        /\ ~is_active_move(state'.active_moves, move)
                        /\ ~landed(state', move)
                   ELSE IF state'.current_tick < due
                   THEN is_active_move(state'.active_moves, move)
                   ELSE /\ ~is_active_move(state'.active_moves, move)
                        /\ landed(state', move)]_vars

\* the tick() that brings current_tick to N + 1 + L * T has completed a move of two
\* segments: the piece is at rest at the end of its path, in cooldown from this tick
C34_Witness ==
    /\ last.op = "tick"
    /\ \E k \in 1..Len(last.events) :
          /\ last.events[k].type = "move_completed"
          /\ LET i == get_piece_by_id(state.board, last.events[k].data.piece_id)
             IN  /\ state.board.pieces[i].moved
                 /\ ~state.board.pieces[i].captured
                 /\ move_of(state.active_moves, last.events[k].data.piece_id) = None
                 /\ \E c \in 1..Len(state.cooldowns) :
                       /\ state.cooldowns[c].piece_id = last.events[k].data.piece_id
                       /\ state.cooldowns[c].start_tick = state.current_tick
    /\ \E m \in 1..Len(state.replay_moves) :
          state.current_tick = state.replay_moves[m].tick + 1 + 2 * T_of(state)

\* the squares of a path after its first
squares_after_start(path) ==
    {<<path[k][1] \div 2, path[k][2] \div 2>> : k \in 2..Len(path)}

\* a piece of the player at rest stands on a square of the path after its first, or an
\* active move of a piece of the player ends on one
friendly_block(st, player, path) ==
    \/ \E i \in 1..Len(st.board.pieces) :
          LET p == st.board.pieces[i]
          IN  /\ p.player = player /\ ~p.captured
              /\ move_of(st.active_moves, p.id) = None
              /\ <<p.row, p.col>> \in squares_after_start(path)
    \/ \E k \in 1..Len(st.active_moves) :
          LET i == get_piece_by_id(st.board, st.active_moves[k].piece_id)
          IN  /\ i # 0
              /\ st.board.pieces[i].player = player
              /\ end_square(st.active_moves[k]) \in squares_after_start(path)

\* a piece of another player at rest stands on a square of the path after its first
enemy_on_path(st, player, path) ==
    \E i \in 1..Len(st.board.pieces) :
        LET p == st.board.pieces[i]
        IN  /\ p.player # player /\ ~p.captured
            /\ move_of(st.active_moves, p.id) = None
            /\ <<p.row, p.col>> \in squares_after_start(path)

C36_EnemyBlocksPassage ==
    state.status = "playing" =>
        \A i \in 1..Len(state.board.pieces) :
          \A to_row \in 0..(state.board.height - 1), to_col \in 0..(state.board.width - 1) :
            LET piece == state.board.pieces[i]
                path == _compute_piece_path(piece, state.board, piece.row, piece.col,
                                            to_row, to_col, state.active_moves)
                passage == SubSeq(path, 1, Len(path) - 1)
                move == validate_move(state, piece.player, piece.id, to_row, to_col)
            IN  (/\ piece.type \in {"R", "B", "Q"}
                 /\ ~piece.captured
                 /\ ~is_piece_moving(piece.id, state.active_moves)
                 /\ ~is_piece_on_cooldown(piece.id, state.cooldowns, state.current_tick)
                 /\ <<to_row, to_col>> # <<piece.row, piece.col>>
                 /\ is_valid_square(state.board, to_row, to_col)
                 /\ path # None)
                    => IF enemy_on_path(state, piece.player, passage) THEN move = None
                       ELSE ~friendly_block(state, piece.player, path) => move # None

\* C37: a ReplaySession has at most one live playback task at any time, under any
\* sequence of play, pause, seek and close calls; play while already playing, after
\* close, or at total_ticks starts nothing.
C37_OneLiveTask ==
    /\ Cardinality(session.tasks) <= 1
    /\ (\/ session.is_playing
        \/ session._closed
        \/ session.current_tick >= session.replay.total_ticks) =>
            /\ play(session).tasks = session.tasks
            /\ play(session)._playback_task = session._playback_task

\* the playback reached total_ticks and stopped: its task is past the loop and not yet
\* done while the handler is free to take the next message, and play starts nothing
C37_Witness ==
    /\ session.pc = "idle"
    /\ ~session.is_playing /\ ~session._closed
    /\ session.current_tick = session.replay.total_ticks
    /\ session.tasks = {[id |-> session._playback_task, pc |-> "finally"]}
    /\ play(session) = session

\* ------------------------------------------------------------------------
\* ReplayEngine.get_state_at_tick, one iteration of its loop at a time
\* ------------------------------------------------------------------------
\* the replay of a game on the opening position in which the knight of b1 goes to c3,
\* b5, d6 and takes the king on e8, each move as soon as the cooldown of the one before
\* is over: the game ended at tick 231 by the capture of the king
HuntReplay ==
    Replay("lightning", "standard", PLAYERS_HUMANS,
           << ReplayMove(0, PieceId("N", 1, 7, 1), 5, 2, 1),
              ReplayMove(73, PieceId("N", 1, 7, 1), 3, 1, 1),
              ReplayMove(146, PieceId("N", 1, 7, 1), 2, 3, 1),
              ReplayMove(219, PieceId("N", 1, 7, 1), 0, 4, 1) >>,
           231, Some(1), Some("king_captured"))

\* how far past total_ticks a state is asked for
MaxBeyond == 2

\* the target ticks asked for: the start, a tick on the way, and the ticks around the end
TargetTicks(replay) ==
    {0, replay.total_ticks \div 2}
        \cup {replay.total_ticks + d : d \in 0..MaxBeyond}

ReplayEngineInit ==
    /\ \E replay \in Replays \cup {HuntReplay} :
          /\ \E target_tick \in TargetTicks(replay) :
                session = [replay |-> replay, target_tick |-> target_tick, pc |-> "loop"]
          /\ state = [create_game(replay.speed, replay.players, replay.board_type, "uuid")
                        EXCEPT !.status = "playing"]
    /\ last = NoCall
    /\ hs = None
    /\ manager = None
    /\ db = None

\* "while state.current_tick < target_tick": one iteration
ReplayIteration ==
    /\ session.pc = "loop"
    /\ state.current_tick < session.target_tick
    /\ state' = replay_iteration(session.replay, state)
    /\ UNCHANGED <<last, session, hs, manager, db>>

\* "return state"
ReplayReturn ==
    /\ session.pc = "loop"
    /\ ~(state.current_tick < session.target_tick)
    /\ session' = [session EXCEPT !.pc = "return"]
    /\ UNCHANGED <<state, last, hs, manager, db>>

ReplayEngineNext == ReplayIteration \/ ReplayReturn

SpecReplayEngine == ReplayEngineInit /\ [][ReplayEngineNext]_vars

\* an iteration that changes the state can be taken: tick() and validate_move leave a
\* state that is not PLAYING as it is
IterationPending ==
    /\ session.pc = "loop"
    /\ state.current_tick < session.target_tick
    /\ state.status = "playing"

ReturnPending == session.pc = "loop" /\ ~(state.current_tick < session.target_tick)

\* the interpreter goes on with the loop as long as there is a statement to run: weak
\* fairness of the iteration and of the return, with the conditions under which they
\* can be taken written out
FairReplayEngine ==
    /\ SpecReplayEngine
    /\ []<>~IterationPending \/ []<><<state'.current_tick = state.current_tick + 1>>_vars
    /\ []<>~ReturnPending \/ []<><<session'.pc = "return">>_vars

\* C38: ReplayEngine.get_state_at_tick(target) returns after finitely many steps for
\* every replay and every target tick >= 0, including targets beyond the tick at which
\* the replayed game reaches FINISHED: every iteration that its loop has to run brings
\* current_tick nearer to the target, so that the loop is left after at most target
\* iterations.
C38_Returns ==
    (session.pc = "loop" /\ state.current_tick < session.target_tick) =>
        replay_iteration(session.replay, state).current_tick > state.current_tick

\* where an iteration does not advance the tick it leaves the whole state as it is, and
\* so does every iteration after it: the loop is never left
C38_StuckForever ==
    (session.pc = "loop" /\ state.current_tick < session.target_tick
        /\ ~(replay_iteration(session.replay, state).current_tick > state.current_tick)) =>
        (state.status = "finished" /\ replay_iteration(session.replay, state) = state)

\* C38 as a liveness property, for the targets up to the tick at which the replayed game
\* is FINISHED
C38_ReturnsUpToTheEnd ==
    (session.target_tick <= session.replay.total_ticks) ~> (session.pc = "return")

\* the tick at which the replayed game of HuntReplay is FINISHED is its total_ticks
C38_FinishedAtTotalTicks ==
    (session.replay = HuntReplay /\ state.status = "finished") =>
        state.current_tick = HuntReplay.total_ticks /\ state.winner = Some(1)

\* join_lobby, its refusals and its player lock: the key it returns to a player that is
\* tracked in this lobby ("Already in this lobby"), or None when it goes on to a slot
existing_key(m, code, player_id) ==
    LET tracked == player_id # None /\ player_id[1] \in DOMAIN m._player_to_lobby
        old == m._player_to_lobby[player_id[1]]
    IN  IF code \notin DOMAIN m._lobbies THEN None
        ELSE IF m._lobbies[code].status = "in_game" \/ is_full(m._lobbies[code]) THEN None
        ELSE IF tracked /\ old[1] = code /\ old[2] \in DOMAIN m._player_keys[code]
        THEN Some(m._player_keys[code][old[2]])
        ELSE None

\* C39: join_lobby hands out an existing player key only to the identity that currently
\* occupies that key's slot: an identity that left or was kicked and then joins again
\* never receives the key of the player who now holds its former slot.
C39_KeyOfOwnSlot ==
    \A code \in DOMAIN manager._lobbies : \A p \in PlayerIds :
        LET key == existing_key(manager, code, Some(p))
            slot == manager._key_to_slot[key[1]][2]
        IN  key # None =>
                /\ slot \in DOMAIN manager._lobbies[code].players
                /\ manager._lobbies[code].players[slot].player_id = Some(p)

\* C40: the game_id -> lobby_code table holds exactly one entry for every lobby that is
\* IN_GAME, keyed by that lobby's current_game_id, and no entry for games that have
\* ended or for lobbies that are not IN_GAME or deleted.
C40_GameTable ==
    /\ \A code \in DOMAIN manager._lobbies :
          manager._lobbies[code].status = "in_game" =>
              /\ manager._lobbies[code].current_game_id # None
              /\ manager._lobbies[code].current_game_id[1] \in DOMAIN manager._game_to_lobby
              /\ manager._game_to_lobby[manager._lobbies[code].current_game_id[1]] = code
    /\ \A game_id \in DOMAIN manager._game_to_lobby :
          LET code == manager._game_to_lobby[game_id]
          IN  /\ code \in DOMAIN manager._lobbies
              /\ manager._lobbies[code].status = "in_game"
              /\ manager._lobbies[code].current_game_id = Some(game_id)

\* C40, first half: a lobby that is IN_GAME has its current_game_id in the table; and
\* the entry of its current_game_id is gone when its game has ended
C40_CurrentGameMapped ==
    \A code \in DOMAIN manager._lobbies :
        LET lobby == manager._lobbies[code]
        IN  IF lobby.status = "in_game"
            THEN /\ lobby.current_game_id # None
                 /\ lobby.current_game_id[1] \in DOMAIN manager._game_to_lobby
                 /\ manager._game_to_lobby[lobby.current_game_id[1]] = code
            ELSE /\ lobby.current_game_id = None
                 /\ \A game_id \in DOMAIN manager._game_to_lobby :
                       manager._game_to_lobby[game_id] = code => game_id[1] = "manager"

====
